---------------------------- MODULE Spec2Model ----------------------------
(***************************************************************************)
(* A model of the TypeSentry runtime type-validation library               *)
(* (src/unnamed/part_000): the descriptor classes (TypeModel and its       *)
(* subclasses), the facade `sentry` that builds them, and the three        *)
(* operations test / cast / toString.                                      *)
(*                                                                         *)
(* Descriptors are immutable objects held in the heap `models`; candidate  *)
(* values are JavaScript values, objects among them living in the constant *)
(* object graph ObjectHeap (which may contain reference cycles).           *)
(*                                                                         *)
(* The modules that use the library follow, each with its own variables    *)
(* and specification: the event emitter (src/src/index.ts), IntRange       *)
(* (src/src/utils/NumberRange.ts), the Serializer (src/unnamed/part_001),  *)
(* the identifier parser and the MutableRegistry (src/src/utils/Events.ts, *)
(* src/src/utils/NeoRegistry.ts) and the forms (src/src/libs/UI-2.0.ts).   *)
(***************************************************************************)
EXTENDS Integers, Sequences, FiniteSets, TLC

VARIABLES
    models,     \* the descriptor heap: the singletons, then every descriptor a builder returned
    objects,    \* the JavaScript object graph of the candidate values
    regexps,    \* the caller's RegExp objects (source, flags, lastIndex)
    last,       \* the most recent facade/descriptor call and its outcome
    pinned      \* a test result the caller has kept for later comparison

\* the event emitter of src/src/index.ts (one event, one EventHandlerRegistry)
VARIABLES
    handlers,       \* EventHandlerRegistry.handlers: the Map's entries, in insertion order
    handlerNextId,  \* EventHandlerRegistry.handlerNextId, counted from Number.MIN_SAFE_INTEGER
    dispatch,       \* the fire calls in progress, the innermost last
    issued,         \* every handler ever registered, and what has happened to it
    returned        \* the most recent emitter call that returned, and its result

emitter == <<handlers, handlerNextId, dispatch, issued, returned>>

\* the utilities: IntRange (src/src/utils/NumberRange.ts) and Serializer
\* (src/unnamed/part_001)
VARIABLES
    intRange,               \* the IntRange the client holds: its min and max
    indentationSpaceCount,  \* Serializer.properties.indentationSpaceCount
    hiddenPrototypes,       \* Serializer.properties.hiddenPrototypes
    reply                   \* the most recent utility call and its outcome

utilities == <<intRange, indentationSpaceCount, hiddenPrototypes, reply>>

\* a MutableRegistry (src/src/utils/NeoRegistry.ts)
VARIABLES
    registry    \* its type model (a descriptor id) and its entries, in insertion order

\* a form of src/src/libs/UI-2.0.ts (an ActionFormWrapper, ModalFormWrapper
\* or MessageFormWrapper)
VARIABLES
    form,       \* the wrapper: its callbacks, its buttons, the shows not yet answered
    handling,   \* the response whose then-callback of open is running, if any
    handled     \* the response handled last, till the next one arrives, and the callbacks invoked for it

forms == <<form, handling, handled>>

\* the state of the modules that use the validation library
host == <<emitter, utilities, registry, forms>>

\* the variables of the validation library
validation == <<models, objects, regexps, last, pinned>>

vars == <<validation, host>>

\* what the emitter's operations leave alone, and the utilities'
besidesEmitter == <<validation, utilities, registry, forms>>
besidesUtilities == <<validation, emitter, registry, forms>>

(***************************************************************************)
(* Bounds of the model.                                                    *)
(***************************************************************************)
\* descriptors built on top of the singletons
MaxModels == 2
\* descriptors built in the struct family's specification
MaxStructModels == 3
\* the engine's call-stack budget, counted in nested test/toString frames
MaxStack == 6

(***************************************************************************)
(* JavaScript strings are sequences of one-character strings.              *)
(***************************************************************************)
S_empty == << >>
S_a == <<"a">>
S_b == <<"b">>
S_c == <<"c">>
S_d == <<"d">>
S_x == <<"x">>
S_ab == <<"a", "b">>
S_aa == <<"a", "a">>
S_length == <<"l", "e", "n", "g", "t", "h">>
S_toString == <<"t", "o", "S", "t", "r", "i", "n", "g">>
S_valueOf == <<"v", "a", "l", "u", "e", "O", "f">>
S_constructor == <<"c", "o", "n", "s", "t", "r", "u", "c", "t", "o", "r">>
S_prototype == <<"p", "r", "o", "t", "o", "t", "y", "p", "e">>
S_5 == <<"5">>
S_true == <<"t", "r", "u", "e">>
S_false == <<"f", "a", "l", "s", "e">>
S_Record == <<"R", "e", "c", "o", "r", "d">>
S_Map == <<"M", "a", "p">>
S_name == <<"n", "a", "m", "e">>
S_boolean == <<"b", "o", "o", "l", "e", "a", "n">>
S_number == <<"n", "u", "m", "b", "e", "r">>
S_numberInt == <<"n", "u", "m", "b", "e", "r", "(", "i", "n", "t", ")">>
S_bigint == <<"b", "i", "g", "i", "n", "t">>
S_string == <<"s", "t", "r", "i", "n", "g">>
S_null == <<"n", "u", "l", "l">>
S_undefined == <<"u", "n", "d", "e", "f", "i", "n", "e", "d">>
S_any == <<"a", "n", "y">>
S_never == <<"n", "e", "v", "e", "r">>
S_unknown == <<"u", "n", "k", "n", "o", "w", "n">>
S_void == <<"v", "o", "i", "d">>
S_function == <<"f", "u", "n", "c", "t", "i", "o", "n">>
S_symbol == <<"s", "y", "m", "b", "o", "l">>
S_Foo == <<"F", "o", "o">>
S_Object == <<"O", "b", "j", "e", "c", "t">>
S_Array == <<"A", "r", "r", "a", "y">>
S_A == <<"A">>
S_B == <<"B">>
S_NaN == <<"N", "a", "N">>
S_Function == <<"F", "u", "n", "c", "t", "i", "o", "n">>
S_Infinity == <<"I", "n", "f", "i", "n", "i", "t", "y">>
Digits == <<"0", "1", "2", "3", "4", "5", "6", "7", "8", "9">>

(***************************************************************************)
(* JavaScript values.  A number is finite (twice its value is kept, so     *)
(* that 1.5 is representable), NaN, +Infinity or -Infinity.  Objects and   *)
(* functions are references into ObjectHeap.                               *)
(***************************************************************************)
Undefined == [t |-> "undefined"]
Null == [t |-> "null"]
Bool(b) == [t |-> "boolean", b |-> b]
Num(n) == [t |-> "number", cls |-> "finite", twice |-> 2 * n]
Half(k) == [t |-> "number", cls |-> "finite", twice |-> k]
NaN == [t |-> "number", cls |-> "NaN", twice |-> 0]
Infinity == [t |-> "number", cls |-> "+Inf", twice |-> 0]
Str(s) == [t |-> "string", s |-> s]
Sym(d) == [t |-> "symbol", d |-> d]
BigInt(i) == [t |-> "bigint", i |-> i]
Ref(id) == [t |-> "object", ref |-> id]
Hole == [t |-> "hole"]

\* an own property: a data property, or an accessor whose getter throws
Data(key, value) == [key |-> key, enum |-> TRUE, accessor |-> FALSE, value |-> value]
Hidden(key, value) == [key |-> key, enum |-> FALSE, accessor |-> FALSE, value |-> value]
ThrowingGetter(key) == [key |-> key, enum |-> TRUE, accessor |-> TRUE, value |-> Undefined]

Plain(proto, props) ==
    [class |-> "Object", proto |-> proto, props |-> props, items |-> << >>, call |-> "none"]
ArrayObj(items) ==
    [class |-> "Array", proto |-> 3, props |-> << >>, items |-> items, call |-> "none"]
FunctionObj(props, call) ==
    [class |-> "Function", proto |-> 2, props |-> props, items |-> << >>, call |-> call]
\* a Map: its items are its entries, each a pair of a key and a value
MapObj(entries) ==
    [class |-> "Map", proto |-> 32, props |-> << >>, items |-> entries, call |-> "none"]

(***************************************************************************)
(* The object graph the candidate values are drawn from.  Ids 1..12 are    *)
(* the built-in prototypes, their methods and the constructor functions    *)
(* that classOf is given; ids 13.. are candidate objects.  Object 25 is an *)
(* array that contains itself.                                             *)
(***************************************************************************)
ObjectHeap ==
    << \* 1: Object.prototype
       Plain(0, << Hidden(S_constructor, Ref(8)), Hidden(S_toString, Ref(4)),
                   Hidden(S_valueOf, Ref(5)) >>),
       \* 2: Function.prototype
       Plain(1, << Hidden(S_toString, Ref(7)) >>),
       \* 3: Array.prototype
       Plain(1, << Hidden(S_constructor, Ref(9)), Hidden(S_toString, Ref(6)) >>),
       \* 4..7: Object.prototype.toString, Object.prototype.valueOf,
       \*       Array.prototype.toString, Function.prototype.toString
       FunctionObj(<< >>, "Object.prototype.toString"),
       FunctionObj(<< >>, "Object.prototype.valueOf"),
       FunctionObj(<< >>, "Array.prototype.toString"),
       FunctionObj(<< >>, "Function.prototype.toString"),
       \* 8: Object, 9: Array, 10: class Foo {}, 11: Foo.prototype
       FunctionObj(<< Hidden(S_prototype, Ref(1)), Hidden(S_name, Str(S_Object)) >>,
                   "constructor"),
       FunctionObj(<< Hidden(S_prototype, Ref(3)), Hidden(S_name, Str(S_Array)) >>,
                   "constructor"),
       FunctionObj(<< Hidden(S_prototype, Ref(11)), Hidden(S_name, Str(S_Foo)) >>,
                   "constructor"),
       Plain(1, << Hidden(S_constructor, Ref(10)) >>),
       \* 12: an arrow function () => {} (it has no prototype property)
       FunctionObj(<< Hidden(S_name, Str(S_empty)) >>, "arrow"),
       \* 13: {}   14: {a: "x"}   15: {a: "x", b: 1}
       Plain(1, << >>),
       Plain(1, << Data(S_a, Str(S_x)) >>),
       Plain(1, << Data(S_a, Str(S_x)), Data(S_b, Num(1)) >>),
       \* 16: {a: "x", toString: 1}   17: {a: 1}
       Plain(1, << Data(S_a, Str(S_x)), Data(S_toString, Num(1)) >>),
       Plain(1, << Data(S_a, Num(1)) >>),
       \* 18: {get a() { throw new Error() }}
       Plain(1, << ThrowingGetter(S_a) >>),
       \* 19: Object.create({a: "x"})   20: Object.create(null)   21: new Foo()
       Plain(14, << >>),
       Plain(0, << >>),
       Plain(11, << >>),
       \* 22: []   23: ["a", "b"]   24: ["a", "b", "c", "d"]
       ArrayObj(<< >>),
       ArrayObj(<< Str(S_a), Str(S_b) >>),
       ArrayObj(<< Str(S_a), Str(S_b), Str(S_c), Str(S_d) >>),
       \* 25: c = []; c.push(c)   26: [ , "a"] (index 0 is a hole)   27: ["a", 1]
       ArrayObj(<< Ref(25) >>),
       ArrayObj(<< Hole, Str(S_a) >>),
       ArrayObj(<< Str(S_a), Num(1) >>),
       \* 28: {a: "x", b: "b"}   29: [["a"]]
       Plain(1, << Data(S_a, Str(S_x)), Data(S_b, Str(S_b)) >>),
       ArrayObj(<< Ref(23) >>),
       \* 30: ["a", 1, true]   31: ["a"]
       ArrayObj(<< Str(S_a), Num(1), Bool(TRUE) >>),
       ArrayObj(<< Str(S_a) >>),
       \* 32: Map.prototype   33: Map
       Plain(1, << Hidden(S_constructor, Ref(33)) >>),
       FunctionObj(<< Hidden(S_prototype, Ref(32)), Hidden(S_name, Str(S_Map)) >>,
                   "constructor"),
       \* 34: new Map()   35: new Map([["a", 1]])   36: new Map([["a", 1], [1, 1]])
       MapObj(<< >>),
       MapObj(<< << Str(S_a), Num(1) >> >>),
       MapObj(<< << Str(S_a), Num(1) >>, << Num(1), Num(1) >> >>),
       \* 37: Object.create(Map.prototype), which is no Map
       Plain(32, << >>),
       \* 38: Function
       FunctionObj(<< Hidden(S_prototype, Ref(2)), Hidden(S_name, Str(S_Function)) >>,
                   "constructor")
    >>

ObjectClass == Ref(8)
ArrayClass == Ref(9)
FooClass == Ref(10)
ArrowFunction == Ref(12)
MapClass == Ref(33)
FunctionClass == Ref(38)

Max(S) == CHOOSE n \in S : \A k \in S : k <= n
Min(S) == CHOOSE n \in S : \A k \in S : n <= k

(***************************************************************************)
(* The JavaScript operations the library's code applies to a value.        *)
(***************************************************************************)
IsObject(x) == x.t = "object"
IsCallable(x) == IsObject(x) /\ objects[x.ref].call # "none"

\* typeof x
TypeOf(x) ==
    IF x.t = "null" THEN "object"
    ELSE IF IsCallable(x) THEN "function"
    ELSE x.t

\* Array.isArray(x)
IsArray(x) == IsObject(x) /\ objects[x.ref].class = "Array"

\* the array index i (from 0) as a property key
IndexKey(i) == << Digits[i + 1] >>

\* the own property keys of an object, enumerable or not
OwnKeys(id) ==
    { objects[id].props[i].key : i \in DOMAIN objects[id].props }
        \cup (IF objects[id].class = "Array"
              THEN { IndexKey(i - 1) :
                        i \in { j \in DOMAIN objects[id].items : objects[id].items[j] # Hole } }
                       \cup { S_length }
              ELSE { })

\* the own property of object id named key, which is one of its own keys
OwnProperty(id, key) ==
    IF \E i \in DOMAIN objects[id].props : objects[id].props[i].key = key
    THEN objects[id].props[CHOOSE i \in DOMAIN objects[id].props :
                                  objects[id].props[i].key = key]
    ELSE IF key = S_length
    THEN Hidden(S_length, Num(Len(objects[id].items)))
    ELSE Data(key, objects[id].items[CHOOSE j \in DOMAIN objects[id].items :
                                         IndexKey(j - 1) = key])

\* the property named key found first on the prototype chain from object
\* id on (id 0 is null), as a sequence of none or one
RECURSIVE Lookup(_, _)
Lookup(id, key) ==
    IF id = 0 THEN << >>
    ELSE IF key \in OwnKeys(id) THEN << OwnProperty(id, key) >>
    ELSE Lookup(objects[id].proto, key)

\* key in x
HasProperty(x, key) == Lookup(x.ref, key) # << >>

\* the value read from a looked-up property: undefined when there is none,
\* and a getter throws.  "Error" stands for whatever the candidate's own
\* getter throws.
Read(found) ==
    IF found = << >> THEN [thrown |-> "none", value |-> Undefined]
    ELSE IF found[1].accessor THEN [thrown |-> "Error", value |-> Undefined]
    ELSE [thrown |-> "none", value |-> found[1].value]

\* x[key]
Get(x, key) == Read(Lookup(x.ref, key))

\* the prototype chain of an object, itself first
RECURSIVE ProtoChain(_)
ProtoChain(id) == IF id = 0 THEN { } ELSE { id } \cup ProtoChain(objects[id].proto)

\* Object.keys(x): the own enumerable string keys, array indices first and
\* ascending, then the other keys in insertion order
ObjectKeys(id) ==
    (IF objects[id].class = "Array"
     THEN SelectSeq([i \in 1..Len(objects[id].items) |-> IndexKey(i - 1)],
                    LAMBDA k : k \in OwnKeys(id))
     ELSE << >>)
        \o [i \in 1..Len(SelectSeq(objects[id].props, LAMBDA p : p.enum)) |->
               SelectSeq(objects[id].props, LAMBDA p : p.enum)[i].key]

\* x instanceof C, for a function C without Symbol.hasInstance: false for a
\* primitive x; otherwise C.prototype must be an object (TypeError if not)
\* and is looked for on x's prototype chain
InstanceOf(x, C) ==
    IF ~IsCallable(C) THEN "TypeError"
    ELSE IF ~IsObject(x) THEN "false"
    ELSE IF ~IsObject(Get(C, S_prototype).value) THEN "TypeError"
    ELSE IF Get(C, S_prototype).value.ref \in ProtoChain(objects[x.ref].proto) THEN "true"
    ELSE "false"

\* `${x}`: ToString(x).  A symbol cannot be converted; an object is
\* converted through its toString method, then its valueOf method, and a
\* TypeError is thrown when neither yields a primitive.  Array.prototype
\* .toString joins the conversions of the elements (undefined, null and holes
\* give ""), and the engines cut a cycle short with "".
RECURSIVE ToStringOutcome(_, _)

\* the first outcome of outs that is a throw, in index order
FirstThrown(outs) ==
    IF \A i \in DOMAIN outs : outs[i] = "none" THEN "none"
    ELSE outs[Min({ i \in DOMAIN outs : outs[i] # "none" })]

\* the conversion of object x whose toString property read as m
ObjectToString(x, m, visiting) ==
    IF m.thrown # "none" THEN m.thrown
    ELSE IF ~IsCallable(m.value) THEN "TypeError"
    ELSE IF objects[m.value.ref].call # "Array.prototype.toString" \/ ~IsArray(x) THEN "none"
    ELSE IF x.ref \in visiting THEN "none"
    ELSE FirstThrown([i \in DOMAIN objects[x.ref].items |->
                         IF objects[x.ref].items[i].t \in {"hole", "undefined", "null"}
                         THEN "none"
                         ELSE ToStringOutcome(objects[x.ref].items[i],
                                              visiting \cup {x.ref})])

ToStringOutcome(x, visiting) ==
    IF x.t = "symbol" THEN "TypeError"
    ELSE IF ~IsObject(x) THEN "none"
    ELSE ObjectToString(x, Get(x, S_toString), visiting)

(***************************************************************************)
(* Numbers.                                                                *)
(***************************************************************************)
\* Number.isNaN(x)
NumberIsNaN(x) == x.t = "number" /\ x.cls = "NaN"

\* Number.isInteger(x)
NumberIsInteger(x) == x.t = "number" /\ x.cls = "finite" /\ x.twice % 2 = 0

\* a < b on numbers: false whenever one side is NaN
NumLt(a, b) ==
    /\ a.cls # "NaN" /\ b.cls # "NaN"
    /\ \/ a.cls = "-Inf" /\ b.cls # "-Inf"
       \/ a.cls = "finite" /\ b.cls = "+Inf"
       \/ a.cls = "finite" /\ b.cls = "finite" /\ a.twice < b.twice

\* a <= b on numbers
NumLe(a, b) ==
    /\ a.cls # "NaN" /\ b.cls # "NaN"
    /\ \/ NumLt(a, b)
       \/ a.cls = b.cls /\ a.twice = b.twice

(***************************************************************************)
(* Regular expressions.  A pattern's source is one literal character; its  *)
(* flags g and y make it stateful through lastIndex.                       *)
(***************************************************************************)
\* RegExp.prototype.test(s): whether rx matches, and the lastIndex it leaves
RegExpExec(rx, s) ==
    LET stateful == rx.global \/ rx.sticky
        start == IF stateful THEN rx.lastIndex ELSE 0
        hits == { i \in start..(Len(s) - 1) :
                     s[i + 1] = rx.source /\ (rx.sticky => i = start) }
    IN  IF hits = { }
        THEN [matched |-> FALSE, lastIndex |-> IF stateful THEN 0 ELSE rx.lastIndex]
        ELSE [matched |-> TRUE,
              lastIndex |-> IF stateful
                            THEN 1 + (CHOOSE i \in hits : \A j \in hits : i <= j)
                            ELSE rx.lastIndex]

\* a faulty variant of NewRegExp, which C7 is tested against: the pattern
\* object itself is used, so its lastIndex is shared with the caller
SharedRegExp(pattern) == pattern

\* new RegExp(pattern): a fresh object with pattern's source and flags
NewRegExp(pattern) == [pattern EXCEPT !.lastIndex = 0]

(***************************************************************************)
(* Descriptors.  One record shape serves every class; `kind` names the     *)
(* class and the other fields are the class's private fields and the       *)
(* variables its test closure captured (that, min, max, pattern).          *)
(***************************************************************************)
Model(kind) ==
    [kind |-> kind, that |-> 0, type |-> 0, types |-> << >>, object |-> << >>,
     min |-> Undefined, max |-> Undefined, pattern |-> 0,
     constructorObject |-> Undefined, enumeration |-> << >>, tuple |-> << >>,
     keyType |-> 0, valueType |-> 0, value |-> Undefined]

\* the static INSTANCE fields, in the order TypeSentry's fields read them
Singletons ==
    << Model("Boolean"), Model("Number"), Model("BigInt"), Model("String"),
       Model("Function"), Model("Null"), Model("Undefined"), Model("Void"),
       Model("Symbol"), Model("Any"), Model("Never"), Model("Unknown"), Model("Int") >>

\* the facade's readonly fields: each names its singleton in the heap
sentry ==
    [boolean |-> 1, number |-> 2, bigint |-> 3, string |-> 4, function |-> 5,
     null |-> 6, undefined |-> 7, void |-> 8, symbol |-> 9, any |-> 10,
     never |-> 11, unknown |-> 12, int |-> 13]

\* instanceof NumberModel / StringModel / ArrayModel / NeoObjectModel / NeoOptionalModel
NumberKinds == {"Number", "NumberNonNaN", "NumberInt", "Int", "IntNonNaN"}
StringKinds == {"String", "StringWithLength", "StringWithPattern"}
ArrayKinds == {"Array", "ArrayWithLength"}
NeoObjectKinds == {"NeoObject", "NeoObjectExact"}
IsNeoOptional(m) == m.kind = "NeoOptional"

(***************************************************************************)
(* test.  A call returns "true" or "false" or throws; the outcome of a     *)
(* call is the pair of what it returned or threw (out) and the deepest     *)
(* nesting of test calls it reached (deep), the call itself being at       *)
(* depth d.                                                                *)
(***************************************************************************)
Returned(b, d) == [out |-> IF b THEN "true" ELSE "false", deep |-> d]
Thrown(e, d) == [out |-> e, deep |-> d]

\* a loop over res[1], res[2], ... that goes on while the outcome is `go`
\* and ends with the first other outcome (a return or a throw)
Loop(res, go, d) ==
    LET stop == { i \in DOMAIN res : res[i].out # go }
        n == IF stop = { } THEN Len(res) ELSE Min(stop)
    IN  [out |-> IF stop = { } THEN go ELSE res[n].out,
         deep |-> Max({d} \cup { res[i].deep : i \in 1..n })]

\* a && b, where b is evaluated only after a returned true
AndThen(a, b) ==
    IF a.out # "true" THEN a ELSE [out |-> b.out, deep |-> Max({a.deep, b.deep})]

\* a || b
OrElse(a, b) ==
    IF a.out # "false" THEN a ELSE [out |-> b.out, deep |-> Max({a.deep, b.deep})]

RECURSIVE Test(_, _, _)

\* a faulty variant of NonNaNTest, which C5 is tested against: the base
\* descriptor is not asked
NonNaNTestAlone(m, x, d) == Returned(~NumberIsNaN(x), d)

\* NumberModel.nonNaN / IntModel.nonNaN: that.test(x) && !Number.isNaN(x)
NonNaNTest(m, x, d) ==
    AndThen(Test(models[m.that], x, d + 1), Returned(~NumberIsNaN(x), d))

\* NumberModel.int: that.test(x) && Number.isInteger(x)
IntTest(m, x, d) ==
    AndThen(Test(models[m.that], x, d + 1), Returned(NumberIsInteger(x), d))

\* StringModel.withLength: that.test(x) && (min <= x.length && x.length <= max)
StringWithLengthTest(m, x, d) ==
    AndThen(Test(models[m.that], x, d + 1),
            Returned(NumLe(m.min, Num(Len(x.s))) /\ NumLe(Num(Len(x.s)), m.max), d))

\* StringModel.withPattern: that.test(x) && new RegExp(pattern).test(x)
StringWithPatternTest(m, x, d) ==
    AndThen(Test(models[m.that], x, d + 1),
            Returned(RegExpExec(NewRegExp(regexps[m.pattern]), x.s).matched, d))

\* the elements of an array that are present (not holes), in index order
Present(items) == SelectSeq(items, LAMBDA e : e # Hole)

\* a faulty variant of ElementModel, which C10 is tested against: the array
\* descriptor applies itself to each element, so that the recursion follows
\* the value instead of the descriptor tree
ElementModelSelf(m) == m

\* the descriptor ArrayModel.test applies to each element: this.type
ElementModel(m) == models[m.type]

\* ArrayModel.test: Array.isArray(x) && x.every(e => this.type.test(e));
\* every() visits the elements that are present, in index order
ArrayTest(m, x, d) ==
    IF ~IsArray(x) THEN Returned(FALSE, d)
    ELSE Loop([i \in DOMAIN Present(objects[x.ref].items) |->
                  Test(ElementModel(m), Present(objects[x.ref].items)[i], d + 1)],
              "true", d)

\* a faulty variant of ArrayWithLengthTest, which C9 is tested against: the
\* length is not compared
ArrayWithLengthTestUnbounded(m, x, d) == Test(models[m.that], x, d + 1)

\* ArrayModel.withLength: that.test(x) && (min <= x.length && x.length <= max)
ArrayWithLengthTest(m, x, d) ==
    AndThen(Test(models[m.that], x, d + 1),
            Returned(/\ NumLe(m.min, Num(Len(objects[x.ref].items)))
                     /\ NumLe(Num(Len(objects[x.ref].items)), m.max), d))

\* a faulty variant of UnionTest, which C11 is tested against: every member
\* has to accept
UnionTestEvery(m, x, d) ==
    Loop([i \in DOMAIN m.types |-> Test(models[m.types[i]], x, d + 1)], "true", d)

\* UnionModel.test: this.types.some(type => type.test(x))
UnionTest(m, x, d) ==
    Loop([i \in DOMAIN m.types |-> Test(models[m.types[i]], x, d + 1)], "false", d)

\* IntersectionModel.test: this.types.some(type => type.test(x))
IntersectionTest(m, x, d) ==
    Loop([i \in DOMAIN m.types |-> Test(models[m.types[i]], x, d + 1)], "false", d)

\* a faulty variant of TupleTest, which C12 is tested against: the length
\* is not compared, so that a matching prefix is enough
TupleTestPrefix(m, x, d) ==
    IF ~IsArray(x) THEN Returned(FALSE, d)
    ELSE Loop([i \in DOMAIN m.tuple |->
                  Test(models[m.tuple[i]], Get(x, IndexKey(i - 1)).value, d + 1)],
              "true", d)

\* TupleModel.test: Array.isArray(x), x.length === this.tuple.length, and
\* model.test(x[index]) for each entry of this.tuple in turn
TupleTest(m, x, d) ==
    IF ~IsArray(x) THEN Returned(FALSE, d)
    ELSE IF Len(objects[x.ref].items) # Len(m.tuple) THEN Returned(FALSE, d)
    ELSE Loop([i \in DOMAIN m.tuple |->
                  Test(models[m.tuple[i]], Get(x, IndexKey(i - 1)).value, d + 1)],
              "true", d)

\* Object.entries(x): the own enumerable string-keyed properties, each read
\* (a getter is called) when the list is made
ObjectEntries(id) ==
    [i \in DOMAIN ObjectKeys(id) |->
        [key |-> ObjectKeys(id)[i], read |-> Read(<< OwnProperty(id, ObjectKeys(id)[i]) >>)]]

\* a faulty variant of RecordTest, which C14 is tested against: the keys are
\* not tested
RecordTestValues(m, x, d) ==
    IF TypeOf(x) # "object" \/ x = Null THEN Returned(FALSE, d)
    ELSE IF \E i \in DOMAIN ObjectEntries(x.ref) : ObjectEntries(x.ref)[i].read.thrown # "none"
    THEN Thrown("Error", d)
    ELSE Loop([i \in DOMAIN ObjectEntries(x.ref) |->
                  Test(models[m.valueType], ObjectEntries(x.ref)[i].read.value, d + 1)],
              "true", d)

\* RecordModel.test: a non-null object each of whose entries has a key that
\* this.keyType accepts and then a value that this.valueType accepts; the
\* steps 2i - 1 and 2i of the loop are the two tests of entry i
RecordTest(m, x, d) ==
    IF TypeOf(x) # "object" \/ x = Null THEN Returned(FALSE, d)
    ELSE IF \E i \in DOMAIN ObjectEntries(x.ref) : ObjectEntries(x.ref)[i].read.thrown # "none"
    THEN Thrown("Error", d)
    ELSE Loop([k \in 1..(2 * Len(ObjectEntries(x.ref))) |->
                  IF k % 2 = 1
                  THEN Test(models[m.keyType], Str(ObjectEntries(x.ref)[(k + 1) \div 2].key), d + 1)
                  ELSE Test(models[m.valueType], ObjectEntries(x.ref)[k \div 2].read.value, d + 1)],
              "true", d)

\* a faulty variant of NullableTest, which C16 is tested against: undefined
\* is let through as null is
NullableTestAbsent(m, x, d) ==
    OrElse(Test(models[m.type], x, d + 1), Returned(x \in {Null, Undefined}, d + 1))

\* NullableModel.test: this.type.test(x) || sentry.null.test(x)
NullableTest(m, x, d) ==
    OrElse(Test(models[m.type], x, d + 1), Test(models[sentry.null], x, d + 1))

\* UndefindableModel.test: this.type.test(x) || sentry.undefined.test(x)
UndefindableTest(m, x, d) ==
    OrElse(Test(models[m.type], x, d + 1), Test(models[sentry.undefined], x, d + 1))

\* a === b on primitives: the same type and the same value, except that NaN
\* is not equal to itself
StrictEquals(a, b) == a = b /\ ~(a.t = "number" /\ a.cls = "NaN")

\* LiteralModel.test: x === this.value
LiteralTest(m, x, d) == Returned(StrictEquals(x, m.value), d)

\* MapModel.test: x instanceof Map; then for each entry of x.entries(), the
\* key is tested and then the value (steps 2i - 1 and 2i of the loop).
\* Map.prototype.entries throws TypeError on an object that is no Map.
MapTest(m, x, d) ==
    IF InstanceOf(x, MapClass) # "true" THEN Thrown(InstanceOf(x, MapClass), d)
    ELSE IF objects[x.ref].class # "Map" THEN Thrown("TypeError", d)
    ELSE Loop([k \in 1..(2 * Len(objects[x.ref].items)) |->
                  IF k % 2 = 1
                  THEN Test(models[m.keyType], objects[x.ref].items[(k + 1) \div 2][1], d + 1)
                  ELSE Test(models[m.valueType], objects[x.ref].items[k \div 2][2], d + 1)],
              "true", d)

\* ClassModel.test: x instanceof this.constructorObject
ClassTest(m, x, d) == Thrown(InstanceOf(x, m.constructorObject), d)

\* a faulty variant of EnumLikeTest, which C18 is tested against: x is looked
\* for among the keys of the enumeration
EnumLikeTestKeys(m, x, d) ==
    AndThen(Test([Model("Union") EXCEPT !.types = << sentry.string, sentry.number >>],
                 x, d + 1),
            Returned(\E i \in DOMAIN m.enumeration : Str(m.enumeration[i].key) = x, d))

\* EnumLikeModel.test: a union of the string and number singletons is built
\* and asked first; then Object.values(this.enumeration).includes(x)
EnumLikeTest(m, x, d) ==
    AndThen(Test([Model("Union") EXCEPT !.types = << sentry.string, sentry.number >>],
                 x, d + 1),
            Returned(\E i \in DOMAIN m.enumeration : m.enumeration[i].value = x, d))

\* a faulty variant of NeoOptionalTest, which C15 is tested against: the
\* marker itself lets undefined through
NeoOptionalTestLenient(m, x, d) ==
    OrElse(Test(models[m.type], x, d + 1), Returned(x = Undefined, d))

\* NeoOptionalModel.test: this.type.test(x)
NeoOptionalTest(m, x, d) == Test(models[m.type], x, d + 1)

\* a faulty variant of FieldStep, which C3 is tested against: an absent key
\* is let through whether or not the field is an optional marker
FieldStepLenient(field, x, d) ==
    IF HasProperty(x, field.key)
    THEN IF Get(x, field.key).thrown # "none" THEN Thrown(Get(x, field.key).thrown, d)
         ELSE Test(models[field.model], Get(x, field.key).value, d + 1)
    ELSE Returned(TRUE, d)

\* one round of NeoObjectModel.test's loop over Object.entries(this.object):
\* "true" stands for going on to the next field
FieldStep(field, x, d) ==
    IF HasProperty(x, field.key)
    THEN IF Get(x, field.key).thrown # "none" THEN Thrown(Get(x, field.key).thrown, d)
         ELSE Test(models[field.model], Get(x, field.key).value, d + 1)
    ELSE Returned(IsNeoOptional(models[field.model]), d)

\* NeoObjectModel.test
NeoObjectTest(m, x, d) ==
    IF TypeOf(x) # "object" THEN Returned(FALSE, d)
    ELSE IF x = Null THEN Returned(FALSE, d)
    ELSE Loop([i \in DOMAIN m.object |-> FieldStep(m.object[i], x, d)], "true", d)

\* key in that.object: the declared fields are the own keys of an object
\* literal, whose prototype is Object.prototype
InFieldObject(object, key) ==
    \/ \E i \in DOMAIN object : object[i].key = key
    \/ HasProperty(Ref(1), key)

\* NeoObjectModel.exact: that.test(x), then every key of Object.keys(x) must
\* be `in` that.object
NeoObjectExactTest(m, x, d) ==
    AndThen(Test(models[m.that], x, d + 1),
            Returned(\A i \in DOMAIN ObjectKeys(x.ref) :
                        InFieldObject(models[m.that].object, ObjectKeys(x.ref)[i]), d))

\* test, dispatched on the descriptor's class; a call beyond the engine's
\* stack budget throws RangeError
Test(m, x, d) ==
    IF d > MaxStack THEN Thrown("RangeError", d)
    ELSE CASE m.kind = "Boolean" -> Returned(TypeOf(x) = "boolean", d)
           [] m.kind = "Number" -> Returned(TypeOf(x) = "number", d)
           [] m.kind = "Int" -> Returned(TypeOf(x) = "number" /\ NumberIsInteger(x), d)
           [] m.kind = "BigInt" -> Returned(TypeOf(x) = "bigint", d)
           [] m.kind = "String" -> Returned(TypeOf(x) = "string", d)
           [] m.kind = "Function" -> Returned(TypeOf(x) = "function", d)
           [] m.kind = "Symbol" -> Returned(TypeOf(x) = "symbol", d)
           [] m.kind = "Null" -> Returned(x = Null, d)
           [] m.kind = "Undefined" -> Returned(x = Undefined, d)
           [] m.kind = "Void" -> Returned(x = Undefined, d)
           [] m.kind = "Any" -> Returned(TRUE, d)
           [] m.kind = "Unknown" -> Returned(TRUE, d)
           [] m.kind = "Never" -> Returned(FALSE, d)
           [] m.kind \in {"NumberNonNaN", "IntNonNaN"} -> NonNaNTest(m, x, d)
           [] m.kind = "NumberInt" -> IntTest(m, x, d)
           [] m.kind = "StringWithLength" -> StringWithLengthTest(m, x, d)
           [] m.kind = "StringWithPattern" -> StringWithPatternTest(m, x, d)
           [] m.kind = "Array" -> ArrayTest(m, x, d)
           [] m.kind = "ArrayWithLength" -> ArrayWithLengthTest(m, x, d)
           [] m.kind = "Union" -> UnionTest(m, x, d)
           [] m.kind = "Intersection" -> IntersectionTest(m, x, d)
           [] m.kind = "Tuple" -> TupleTest(m, x, d)
           [] m.kind = "Record" -> RecordTest(m, x, d)
           [] m.kind = "Nullable" -> NullableTest(m, x, d)
           [] m.kind = "Undefindable" -> UndefindableTest(m, x, d)
           [] m.kind = "Literal" -> LiteralTest(m, x, d)
           [] m.kind = "Map" -> MapTest(m, x, d)
           [] m.kind = "Class" -> ClassTest(m, x, d)
           [] m.kind = "EnumLike" -> EnumLikeTest(m, x, d)
           [] m.kind = "NeoOptional" -> NeoOptionalTest(m, x, d)
           [] m.kind = "NeoObject" -> NeoObjectTest(m, x, d)
           [] m.kind = "NeoObjectExact" -> NeoObjectExactTest(m, x, d)

(***************************************************************************)
(* toString.  The outcome is the text (s) and the deepest nesting of       *)
(* toString calls reached (deep), the call itself being at depth d.        *)
(***************************************************************************)
\* strs[1] + sep + strs[2] + sep + ...
RECURSIVE Join(_, _)
Join(strs, sep) ==
    IF strs = << >> THEN S_empty
    ELSE IF Len(strs) = 1 THEN strs[1]
    ELSE strs[1] \o sep \o Join(Tail(strs), sep)

\* Number.prototype.toString of a non-negative integer, NaN or Infinity
RECURSIVE Decimal(_)
Decimal(n) == IF n < 10 THEN << Digits[n + 1] >> ELSE Decimal(n \div 10) \o << Digits[(n % 10) + 1] >>

NumberToString(v) ==
    IF v.cls = "NaN" THEN S_NaN
    ELSE IF v.cls = "+Inf" THEN S_Infinity
    ELSE Decimal(v.twice \div 2)

\* string.includes(ch)
Includes(str, ch) == \E i \in DOMAIN str : str[i] = ch

\* k.replace(/"/g, "\\\""): a backslash before every double quote
RECURSIVE EscapeQuotes(_)
EscapeQuotes(str) ==
    IF str = << >> THEN << >>
    ELSE (IF Head(str) = "\"" THEN << "\\", "\"" >> ELSE << Head(str) >>)
             \o EscapeQuotes(Tail(str))

\* the key of a struct field as NeoObjectModel.toString writes it
FieldKeyText(key) ==
    IF Includes(key, ":") THEN << "\"" >> \o key \o << "\"" >>
    ELSE IF Includes(key, "\"") THEN EscapeQuotes(key)
    ELSE key

\* the deepest nesting among the outcomes res, d when there is none
Deepest(res, d) == Max({d} \cup { res[i].deep : i \in DOMAIN res })

\* a text produced without a nested call
Text(str, d) == [s |-> str, deep |-> d]

RECURSIVE ToStringAt(_, _)

\* UnionModel / IntersectionModel.toString:
\* this.types.map(type => type.toString()).join(sep)
JoinedToString(res, sep, d) ==
    [s |-> Join([i \in DOMAIN res |-> res[i].s], sep), deep |-> Deepest(res, d)]

\* a faulty variant of ArrayToString, which C19 is tested against: the
\* element's description is not followed by "[]" but wrapped in Array<...>
ArrayToStringGeneric(r) == [s |-> S_Array \o << "<" >> \o r.s \o << ">" >>, deep |-> r.deep]

\* ArrayModel.toString: this.type.toString() + "[]"
ArrayToString(r) == [s |-> r.s \o << "[", "]" >>, deep |-> r.deep]

\* TupleModel.toString: "[" + model.toString() + ", " + ... + "]"
TupleToString(res, d) ==
    [s |-> << "[" >> \o Join([i \in DOMAIN res |-> res[i].s], << ",", " " >>) \o << "]" >>,
     deep |-> Deepest(res, d)]

\* RecordModel.toString / MapModel.toString:
\* name + "<" + this.keyType.toString() + ", " + this.valueType.toString() + ">"
KeyValueToString(name, k, v) ==
    [s |-> name \o << "<" >> \o k.s \o << ",", " " >> \o v.s \o << ">" >>,
     deep |-> Max({k.deep, v.deep})]

\* UndefindableModel.toString / NullableModel.toString:
\* this.type.toString() + " | undefined" (" | null")
SuffixedToString(r, suffix) == [s |-> r.s \o << " ", "|", " " >> \o suffix, deep |-> r.deep]

\* LiteralModel.toString, by typeof this.value: a boolean or a number as it
\* prints, a bigint followed by "n", a string between double quotes with its
\* double quotes escaped, a symbol as symbol("description")
LiteralToString(m, d) ==
    Text(CASE m.value.t = "boolean" -> IF m.value.b THEN S_true ELSE S_false
           [] m.value.t = "number" -> NumberToString(m.value)
           [] m.value.t = "bigint" -> Decimal(m.value.i) \o << "n" >>
           [] m.value.t = "string" -> << "\"" >> \o EscapeQuotes(m.value.s) \o << "\"" >>
           [] m.value.t = "symbol" ->
                 S_symbol \o << "(", "\"" >> \o m.value.d \o << "\"", ")" >>,
         d)

\* ClassModel.toString: this.constructorObject.name
ClassToString(m, d) == Text(Get(m.constructorObject, S_name).value.s, d)

\* EnumLikeModel.toString: "Enum { " + k + "=" + v + ", " + ... + " }"
EnumLikeToString(m, d) ==
    Text(<< "E", "n", "u", "m", " ", "{", " " >>
            \o Join([i \in DOMAIN m.enumeration |->
                        m.enumeration[i].key \o << "=" >>
                            \o (IF m.enumeration[i].value.t = "string"
                                THEN m.enumeration[i].value.s
                                ELSE NumberToString(m.enumeration[i].value))],
                    << ",", " " >>)
            \o << " ", "}" >>, d)

\* NeoObjectModel.toString: "{" + k + ": " (or "?: " for an optional marker)
\* + model.toString() + "; " + ... + "}"
NeoObjectToString(m, res, d) ==
    [s |-> << "{" >>
              \o Join([i \in DOMAIN m.object |->
                          FieldKeyText(m.object[i].key)
                              \o (IF IsNeoOptional(models[m.object[i].model])
                                  THEN << "?", ":", " " >> ELSE << ":", " " >>)
                              \o res[i].s],
                      << ";", " " >>)
              \o << "}" >>,
     deep |-> Deepest(res, d)]

\* toString, dispatched on the descriptor's class; the refinements inherit
\* the method of the class they extend
ToStringAt(m, d) ==
    CASE m.kind = "Boolean" -> Text(S_boolean, d)
      [] m.kind \in {"Number", "NumberNonNaN", "NumberInt"} -> Text(S_number, d)
      [] m.kind \in {"Int", "IntNonNaN"} -> Text(S_numberInt, d)
      [] m.kind = "BigInt" -> Text(S_bigint, d)
      [] m.kind \in StringKinds -> Text(S_string, d)
      [] m.kind = "Function" -> Text(S_function, d)
      [] m.kind = "Symbol" -> Text(S_symbol, d)
      [] m.kind = "Null" -> Text(S_null, d)
      [] m.kind = "Undefined" -> Text(S_undefined, d)
      [] m.kind = "Void" -> Text(S_void, d)
      [] m.kind = "Any" -> Text(S_any, d)
      [] m.kind = "Unknown" -> Text(S_unknown, d)
      [] m.kind = "Never" -> Text(S_never, d)
      [] m.kind \in ArrayKinds -> ArrayToString(ToStringAt(models[m.type], d + 1))
      [] m.kind = "Union" ->
            JoinedToString([i \in DOMAIN m.types |-> ToStringAt(models[m.types[i]], d + 1)],
                           << " ", "|", " " >>, d)
      [] m.kind = "Intersection" ->
            JoinedToString([i \in DOMAIN m.types |-> ToStringAt(models[m.types[i]], d + 1)],
                           << " ", "&", " " >>, d)
      [] m.kind = "Tuple" ->
            TupleToString([i \in DOMAIN m.tuple |-> ToStringAt(models[m.tuple[i]], d + 1)], d)
      [] m.kind = "Record" ->
            KeyValueToString(S_Record, ToStringAt(models[m.keyType], d + 1),
                             ToStringAt(models[m.valueType], d + 1))
      [] m.kind = "Nullable" -> SuffixedToString(ToStringAt(models[m.type], d + 1), S_null)
      [] m.kind = "Undefindable" ->
            SuffixedToString(ToStringAt(models[m.type], d + 1), S_undefined)
      [] m.kind = "Literal" -> LiteralToString(m, d)
      [] m.kind = "Map" ->
            KeyValueToString(S_Map, ToStringAt(models[m.keyType], d + 1),
                             ToStringAt(models[m.valueType], d + 1))
      [] m.kind = "Class" -> ClassToString(m, d)
      [] m.kind = "EnumLike" -> EnumLikeToString(m, d)
      [] m.kind = "NeoOptional" -> ToStringAt(models[m.type], d + 1)
      [] m.kind \in NeoObjectKinds ->
            NeoObjectToString(m, [i \in DOMAIN m.object |->
                                     ToStringAt(models[m.object[i].model], d + 1)], d)

(***************************************************************************)
(* cast.                                                                   *)
(***************************************************************************)
\* TypeModel.cast: x itself when this.test(x); otherwise the message is
\* built from `${x}` and then this.toString(), and TypeSentryError is
\* thrown.  An error thrown by test, or by the conversion of x, leaves cast
\* as it is.
CastAfter(m, t, x) ==
    IF t.out = "true" THEN [out |-> "return", ret |-> x, deep |-> t.deep]
    ELSE IF t.out # "false" THEN [out |-> t.out, ret |-> Undefined, deep |-> t.deep]
    ELSE IF ToStringOutcome(x, { }) # "none"
    THEN [out |-> ToStringOutcome(x, { }), ret |-> Undefined, deep |-> t.deep]
    ELSE [out |-> "TypeSentryError", ret |-> Undefined,
          deep |-> Max({t.deep, ToStringAt(m, 1).deep})]

Cast(m, x) == CastAfter(m, Test(m, x, 1), x)

(***************************************************************************)
(* The state machine: the calls a client makes on the facade and on the    *)
(* descriptors it holds.                                                   *)
(***************************************************************************)
\* the record kept of a call
Call(op, model, value) ==
    [op |-> op, model |-> model, value |-> value, out |-> "return", ret |-> Undefined,
     made |-> 0, min |-> Undefined, max |-> Undefined, deep |-> 0]

NoCall == Call("none", 0, Undefined)

\* the record of a call with the outcome r it had
Record(call, r) ==
    [call EXCEPT !.out = r.out,
                 !.ret = IF "ret" \in DOMAIN r THEN r.ret ELSE Undefined,
                 !.deep = r.deep]

\* a utility call: its argument, how it ended ("return" or the error
\* thrown), what it returned, and a part of the state as it was before
Reply(op, arg, out, value, before) ==
    [op |-> op, arg |-> arg, out |-> out, value |-> value, before |-> before,
     round |-> FALSE]

NoReply == Reply("none", Undefined, "return", Undefined, Undefined)

\* enum ServerFormCancelationCause
Causes == {"Any", "UserBusy", "UserClosed"}

\* a wrapper as its constructor leaves it; callbacks counts the callback
\* functions the client has passed, which are numbered from 1
NewForm(kind) ==
    [kind |-> kind,
     cancel |-> [cause \in Causes |-> << >>],
     push |-> << >>,
     buttons |-> IF kind = "Message" THEN << << >>, << >> >> ELSE << >>,
     submit |-> 0,
     body |-> FALSE,
     shown |-> 0,
     callbacks |-> 0]

\* no form has been constructed yet
NoForm == NewForm("none")

\* no response is being handled
NoHandling ==
    [response |-> [canceled |-> FALSE, reason |-> "none", selection |-> 0],
     phases |-> << >>, phase |-> 1, at |-> 0, running |-> FALSE,
     button |-> << >>, log |-> << >>, was |-> [cause \in Causes |-> << >>]]

\* no emitter call has returned yet
NoReturn == [op |-> "none", id |-> 0, value |-> FALSE, was |-> << >>, log |-> << >>]

\* the RegExp objects the client owns: /a/, /a/g and /a/y
Patterns ==
    << [source |-> "a", global |-> FALSE, sticky |-> FALSE, lastIndex |-> 0],
       [source |-> "a", global |-> TRUE, sticky |-> FALSE, lastIndex |-> 0],
       [source |-> "a", global |-> FALSE, sticky |-> TRUE, lastIndex |-> 0] >>

Init ==
    /\ models = Singletons
    /\ objects = ObjectHeap
    /\ regexps = Patterns
    /\ last = NoCall
    /\ pinned = NoCall
    /\ handlers = << >>
    /\ handlerNextId = 0
    /\ dispatch = << >>
    /\ issued = << >>
    /\ returned = NoReturn
    /\ intRange = Undefined
    /\ indentationSpaceCount = Num(4)
    /\ hiddenPrototypes = { }
    /\ reply = NoReply
    /\ registry = [type |-> sentry.string, entries |-> << >>]
    /\ form = NoForm
    /\ handling = NoHandling
    /\ handled = NoHandling

ModelIds == DOMAIN models

\* the client is between two calls: it has taken the outcome of the last one
Idle == last = NoCall

\* the client takes the outcome of the call it made and goes on
Resume ==
    /\ ~Idle
    /\ last' = NoCall
    /\ UNCHANGED <<models, objects, regexps, pinned, host>>

\* a faulty variant of Build, which C20 is tested against: the descriptor
\* built takes the place of the receiver, or of the facade's first field
\* when the facade is the receiver
BuildInPlace(op, receiver, m) ==
    /\ Idle
    /\ models' = [models EXCEPT ![Max({receiver, 1})] = m]
    /\ last' = [Call(op, receiver, Undefined) EXCEPT !.made = Max({receiver, 1})]
    /\ UNCHANGED <<objects, regexps, pinned, host>>

\* a builder returns a new descriptor: it joins the heap, nothing else changes
Build(op, receiver, m) ==
    /\ Idle
    /\ models' = Append(models, m)
    /\ last' = [Call(op, receiver, Undefined) EXCEPT !.made = Len(models) + 1]
    /\ UNCHANGED <<objects, regexps, pinned, host>>

\* model.test(x)
TestCall(id, x) ==
    /\ Idle
    /\ id \in ModelIds
    /\ last' = Record(Call("test", id, x), Test(models[id], x, 1))
    /\ UNCHANGED <<models, objects, regexps, pinned, host>>

\* model.cast(x)
CastCall(id, x) ==
    /\ Idle
    /\ id \in ModelIds
    /\ last' = Record(Call("cast", id, x), Cast(models[id], x))
    /\ UNCHANGED <<models, objects, regexps, pinned, host>>

\* sentry.optionalOf(type)
OptionalOf(type) ==
    /\ type \in ModelIds
    /\ Build("optionalOf", 0, [Model("NeoOptional") EXCEPT !.type = type])

\* sentry.structOf(object): object is the sequence of Object.entries(object),
\* each entry a key and the descriptor it holds
StructOf(object) ==
    /\ \A i \in DOMAIN object : object[i].model \in ModelIds
    /\ Build("structOf", 0, [Model("NeoObject") EXCEPT !.object = object])

\* a faulty variant of Exact, which C13 is tested against: the struct
\* itself is made exact and returned
ExactInPlace(id) ==
    /\ Idle
    /\ id \in ModelIds
    /\ models[id].kind \in NeoObjectKinds
    /\ models' = [models EXCEPT ![id].kind = "NeoObjectExact", ![id].that = id]
    /\ last' = [Call("exact", id, Undefined) EXCEPT !.made = id]
    /\ UNCHANGED <<objects, regexps, pinned, host>>

\* model.exact(), on a NeoObjectModel
Exact(id) ==
    /\ id \in ModelIds
    /\ models[id].kind \in NeoObjectKinds
    /\ Build("exact", id,
             [Model("NeoObjectExact") EXCEPT !.that = id, !.object = models[id].object])

\* model.toString()
ToStringCall(id) ==
    /\ Idle
    /\ id \in ModelIds
    /\ last' = [Call("toString", id, Undefined) EXCEPT
                   !.ret = Str(ToStringAt(models[id], 1).s),
                   !.deep = ToStringAt(models[id], 1).deep]
    /\ UNCHANGED <<models, objects, regexps, pinned, host>>

\* instanceof IntModel
IntKinds == {"Int", "IntNonNaN"}

\* model.nonNaN(), on a NumberModel: IntModel overrides it
NonNaN(id) ==
    /\ id \in ModelIds
    /\ models[id].kind \in NumberKinds
    /\ Build("nonNaN", id,
             [Model(IF models[id].kind \in IntKinds THEN "IntNonNaN" ELSE "NumberNonNaN")
                 EXCEPT !.that = id])

\* model.int(), on a NumberModel
NumberInt(id) ==
    /\ id \in ModelIds
    /\ models[id].kind \in NumberKinds
    /\ Build("int", id, [Model("NumberInt") EXCEPT !.that = id])

\* a LengthRange: each of min and max is a number or left undefined
LengthRange(min, max) == [min |-> min, max |-> max]

\* the bounds withLength computes: range.min, or 0 when it is undefined, and
\* range.max, or Infinity when it is undefined
RangeMin(range) == IF range.min = Undefined THEN Num(0) ELSE range.min
RangeMax(range) == IF range.max = Undefined THEN Infinity ELSE range.max

\* a faulty variant of InvalidRange, which C8 is tested against: min > max
\* is not looked at
NegativeRange(min, max) == NumLt(min, Num(0))

\* min > max || min < 0
InvalidRange(min, max) == NumLt(max, min) \/ NumLt(min, Num(0))

\* withLength(range), on the descriptor id refined into m: TypeSentryError
\* is thrown for an invalid range, and nothing is built
WithLength(id, range, m) ==
    /\ Idle
    /\ IF InvalidRange(RangeMin(range), RangeMax(range))
       THEN /\ last' = [Call("withLength", id, Undefined) EXCEPT
                           !.out = "TypeSentryError", !.min = range.min, !.max = range.max]
            /\ UNCHANGED models
       ELSE /\ models' = Append(models, [m EXCEPT !.that = id,
                                                  !.min = RangeMin(range),
                                                  !.max = RangeMax(range)])
            /\ last' = [Call("withLength", id, Undefined) EXCEPT
                           !.made = Len(models) + 1, !.min = range.min, !.max = range.max]
    /\ UNCHANGED <<objects, regexps, pinned, host>>

\* model.withLength(range), on a StringModel
StringWithLength(id, range) ==
    /\ id \in ModelIds
    /\ models[id].kind \in StringKinds
    /\ WithLength(id, range, Model("StringWithLength"))

\* model.withLength(range), on an ArrayModel: the new descriptor is an
\* ArrayModel of the same element descriptor
ArrayWithLength(id, range) ==
    /\ id \in ModelIds
    /\ models[id].kind \in ArrayKinds
    /\ WithLength(id, range, [Model("ArrayWithLength") EXCEPT !.type = models[id].type])

\* model.withPattern(pattern), on a StringModel: pattern is one of the
\* caller's RegExp objects
WithPattern(id, pattern) ==
    /\ id \in ModelIds
    /\ models[id].kind \in StringKinds
    /\ pattern \in DOMAIN regexps
    /\ Build("withPattern", id,
             [Model("StringWithPattern") EXCEPT !.that = id, !.pattern = pattern])

\* sentry.arrayOf(type)
ArrayOf(type) ==
    /\ type \in ModelIds
    /\ Build("arrayOf", 0, [Model("Array") EXCEPT !.type = type])

\* sentry.unionOf(...types)
UnionOf(types) ==
    /\ \A i \in DOMAIN types : types[i] \in ModelIds
    /\ Build("unionOf", 0, [Model("Union") EXCEPT !.types = types])

\* sentry.intersectionOf(...types)
IntersectionOf(types) ==
    /\ \A i \in DOMAIN types : types[i] \in ModelIds
    /\ Build("intersectionOf", 0, [Model("Intersection") EXCEPT !.types = types])

\* sentry.tupleOf(...elements)
TupleOf(elements) ==
    /\ \A i \in DOMAIN elements : elements[i] \in ModelIds
    /\ Build("tupleOf", 0, [Model("Tuple") EXCEPT !.tuple = elements])

\* sentry.recordOf(keyType, valueType)
RecordOf(keyType, valueType) ==
    /\ keyType \in ModelIds /\ valueType \in ModelIds
    /\ Build("recordOf", 0,
             [Model("Record") EXCEPT !.keyType = keyType, !.valueType = valueType])

\* sentry.nullableOf(type)
NullableOf(type) ==
    /\ type \in ModelIds
    /\ Build("nullableOf", 0, [Model("Nullable") EXCEPT !.type = type])

\* sentry.undefindableOf(type)
UndefindableOf(type) ==
    /\ type \in ModelIds
    /\ Build("undefindableOf", 0, [Model("Undefindable") EXCEPT !.type = type])

\* sentry.literalOf(literal): literal is a primitive value
LiteralOf(literal) ==
    /\ literal.t \in {"boolean", "number", "bigint", "string", "symbol"}
    /\ Build("literalOf", 0, [Model("Literal") EXCEPT !.value = literal])

\* sentry.mapOf(keyType, valueType)
MapOf(keyType, valueType) ==
    /\ keyType \in ModelIds /\ valueType \in ModelIds
    /\ Build("mapOf", 0, [Model("Map") EXCEPT !.keyType = keyType, !.valueType = valueType])

\* sentry.classOf(constructor)
ClassOf(constructor) ==
    Build("classOf", 0, [Model("Class") EXCEPT !.constructorObject = constructor])

\* sentry.enumLikeOf(enumeration): enumeration is the sequence of
\* Object.entries(enumeration)
EnumLikeOf(enumeration) ==
    Build("enumLikeOf", 0, [Model("EnumLike") EXCEPT !.enumeration = enumeration])

\* the caller itself runs pattern.test(s) on one of its RegExp objects,
\* which moves the lastIndex of a global or sticky one
PatternTest(pattern, s) ==
    /\ Idle
    /\ pattern \in DOMAIN regexps
    /\ regexps' = [regexps EXCEPT ![pattern].lastIndex = RegExpExec(regexps[pattern], s).lastIndex]
    /\ regexps' # regexps
    /\ UNCHANGED <<models, objects, last, pinned, host>>

\* the caller keeps the outcome of the test it has just made
Pin ==
    /\ last.op = "test"
    /\ pinned = NoCall
    /\ pinned' = last
    /\ last' = NoCall
    /\ UNCHANGED <<models, objects, regexps, host>>

(***************************************************************************)
(* The struct family: optionalOf, structOf, exact, and test / cast on the  *)
(* descriptors they built.                                                 *)
(***************************************************************************)
Field(key, model) == [key |-> key, model |-> model]

\* whether a builder may still add a descriptor under the bound n
Room(n) == Len(models) < Len(Singletons) + n

\* the descriptors built so far
Built == { id \in ModelIds : id > Len(Singletons) }

\* the field objects given to structOf: {a: string}, {a: string, b: number},
\* {a: string, b: O} and {a: O, b: P} for optional markers O, P already built
StructObjects ==
    LET optionals == { id \in Built : IsNeoOptional(models[id]) } IN
    { << Field(S_a, sentry.string) >>,
      << Field(S_a, sentry.string), Field(S_b, sentry.number) >> }
        \cup { << Field(S_a, sentry.string), Field(S_b, o) >> : o \in optionals }
        \cup { << Field(S_a, o), Field(S_b, p) >> : o \in optionals, p \in optionals }

\* the candidates offered to a struct: objects with and without the declared
\* keys, with extra keys, with an inherited key, with a throwing getter, an
\* array, a function and some primitives
StructCandidates ==
    { Ref(13), Ref(14), Ref(15), Ref(16), Ref(17), Ref(18), Ref(19), Ref(20),
      Ref(21), Ref(22), Ref(28), Ref(12), Null, Undefined, Str(S_x), Num(1) }

NextStruct ==
    \/ /\ Room(MaxStructModels)
       /\ \/ OptionalOf(sentry.number)
          \/ \E object \in StructObjects : StructOf(object)
          \/ \E id \in Built : Exact(id)
    \/ \E id \in Built, x \in StructCandidates : TestCall(id, x)
    \/ \E id \in Built, x \in StructCandidates : CastCall(id, x)
    \/ Resume

SpecStruct == Init /\ [][NextStruct]_vars

(***************************************************************************)
(* The refinement family: nonNaN, int, withLength, withPattern and exact,  *)
(* on the singletons and on arrayOf(string) and structOf({a: string}), and *)
(* nullableOf, optionalOf and unionOf on what was built.                   *)
(***************************************************************************)
\* the ranges given to withLength: {}, {min: 1, max: 3}, {min: 2, max: 1},
\* {min: -1}, {min: NaN, max: 1} and {min: 1.5}
Ranges ==
    { LengthRange(Undefined, Undefined), LengthRange(Num(1), Num(3)),
      LengthRange(Num(2), Num(1)), LengthRange(Num(0 - 1), Undefined),
      LengthRange(NaN, Num(1)), LengthRange(Half(3), Undefined) }

\* the descriptors a refinement builder is called on
Refinable == Built \cup {sentry.number, sentry.int, sentry.string}

RefineCandidates ==
    { Num(1), Half(3), NaN, Str(S_empty), Str(S_a), Str(S_ab), Undefined,
      Ref(14), Ref(15), Ref(16), Ref(22), Ref(23), Ref(24), Ref(26), Ref(27) }

NextRefine ==
    \/ /\ Room(MaxModels)
       /\ \/ \E id \in Refinable : NonNaN(id)
          \/ \E id \in Refinable : NumberInt(id)
          \/ \E id \in Refinable : WithPattern(id, 2)
          \/ ArrayOf(sentry.string)
          \/ StructOf(<< Field(S_a, sentry.string) >>)
          \/ \E id \in Built : Exact(id)
          \/ \E id \in Refinable, range \in Ranges : StringWithLength(id, range)
          \/ \E id \in Refinable, range \in Ranges : ArrayWithLength(id, range)
          \/ \E type \in Built : NullableOf(type)
          \/ \E type \in Built : OptionalOf(type)
          \/ \E type \in Built : UnionOf(<< type, sentry.number >>)
    \/ \E id \in Built, x \in RefineCandidates : TestCall(id, x)
    \/ \E id \in Built, x \in RefineCandidates : CastCall(id, x)
    \/ \E id \in Built : ToStringCall(id)
    \/ Resume

SpecRefine == Init /\ [][NextRefine]_vars

(***************************************************************************)
(* The combinator family: arrayOf, unionOf, intersectionOf, classOf and    *)
(* enumLikeOf, with test / cast / toString on what they built and on the   *)
(* string singleton.                                                       *)
(***************************************************************************)
\* the member descriptors given to a combinator
Members == Built \cup {sentry.string, sentry.number}

\* the enumeration { A: "a", B: 1 }
Enumeration == << [key |-> S_A, value |-> Str(S_a)], [key |-> S_B, value |-> Num(1)] >>

\* the descriptors test / cast / toString are called on
Receivers == Built \cup {sentry.string}

CombineCandidates ==
    { Str(S_a), Str(S_x), Num(1), Bool(TRUE), Sym(S_a), Undefined, Ref(12), Ref(13), Ref(16),
      Ref(20), Ref(21), Ref(22), Ref(23), Ref(25), Ref(27), Ref(29) }

NextCombine ==
    \/ /\ Room(MaxModels)
       /\ \/ \E type \in Members \cup {sentry.any} : ArrayOf(type)
          \/ \E a \in Built \cup {sentry.string}, b \in Members :
                a # b /\ UnionOf(<< a, b >>)
          \/ \E a \in Members, b \in Members : a # b /\ IntersectionOf(<< a, b >>)
          \/ \E constructor \in {FooClass, ArrowFunction} : ClassOf(constructor)
          \/ EnumLikeOf(Enumeration)
    \/ \E id \in Receivers, x \in CombineCandidates : TestCall(id, x)
    \/ \E id \in Receivers, x \in CombineCandidates : CastCall(id, x)
    \/ \E id \in Receivers : ToStringCall(id)
    \/ Resume

SpecCombine == Init /\ [][NextCombine]_vars

(***************************************************************************)
(* The pattern family: withPattern on the caller's RegExp objects, whose   *)
(* lastIndex the caller moves by using them itself.                        *)
(***************************************************************************)
PatternCandidates == { Str(S_empty), Str(S_a), Str(S_b), Str(S_aa), Str(S_ab), Num(1) }

NextPattern ==
    \/ /\ Room(MaxModels)
       /\ \E id \in Built \cup {sentry.string}, pattern \in DOMAIN regexps :
             WithPattern(id, pattern)
    \/ \E pattern \in DOMAIN regexps, x \in PatternCandidates :
          x.t = "string" /\ PatternTest(pattern, x.s)
    \/ \E id \in Built, x \in PatternCandidates : TestCall(id, x)
    \/ \E id \in Built, x \in PatternCandidates : CastCall(id, x)
    \/ \E id \in Built : ToStringCall(id)
    \/ Pin
    \/ Resume

SpecPattern == Init /\ [][NextPattern]_vars

(***************************************************************************)
(* The shape family: tupleOf and recordOf, with test / cast / toString on  *)
(* what was built.                                                         *)
(***************************************************************************)
\* the element lists given to tupleOf
Tuples ==
    { << >>, << sentry.string >>, << sentry.string, sentry.number >>,
      << sentry.string, sentry.string >> }
        \cup { << sentry.string, b >> : b \in Built }

ShapeCandidates ==
    { Str(S_a), Num(1), Null, Undefined, Ref(12), Ref(13), Ref(14), Ref(15), Ref(17),
      Ref(18), Ref(19), Ref(22), Ref(23), Ref(26), Ref(27), Ref(30), Ref(31) }

NextShape ==
    \/ /\ Room(MaxModels)
       /\ \/ \E elements \in Tuples : TupleOf(elements)
          \/ \E keyType \in {sentry.string, sentry.number, sentry.never},
                valueType \in Built \cup {sentry.string, sentry.number} :
                RecordOf(keyType, valueType)
    \/ \E id \in Built, x \in ShapeCandidates : TestCall(id, x)
    \/ \E id \in Built, x \in ShapeCandidates : CastCall(id, x)
    \/ \E id \in Built : ToStringCall(id)
    \/ Resume

SpecShape == Init /\ [][NextShape]_vars

(***************************************************************************)
(* The wrapper family: nullableOf, undefindableOf and literalOf (and       *)
(* classOf, for an inner descriptor whose test can throw), with test /     *)
(* cast / toString on what was built.                                      *)
(***************************************************************************)
\* the literals given to literalOf
Literals == { Num(5), Str(S_5), NaN, Bool(TRUE), BigInt(5), Sym(S_a) }

\* the descriptors given to nullableOf and undefindableOf
Wrapped == Built \cup {sentry.string, sentry.null, sentry.undefined}

WrapCandidates ==
    { Null, Undefined, Str(S_a), Str(S_5), Num(5), NaN, Bool(TRUE), BigInt(5), Sym(S_a),
      Sym(S_b), Ref(13) }

\* the descriptors test / cast / toString are called on
WrapReceivers == Built \cup {sentry.any, sentry.unknown, sentry.never}

NextWrap ==
    \/ /\ Room(MaxModels)
       /\ \/ \E type \in Wrapped : NullableOf(type)
          \/ \E type \in Wrapped : UndefindableOf(type)
          \/ \E literal \in Literals : LiteralOf(literal)
          \/ ClassOf(ArrowFunction)
    \/ \E id \in WrapReceivers, x \in WrapCandidates : TestCall(id, x)
    \/ \E id \in WrapReceivers, x \in WrapCandidates : CastCall(id, x)
    \/ \E id \in WrapReceivers : ToStringCall(id)
    \/ Resume

SpecWrap == Init /\ [][NextWrap]_vars

(***************************************************************************)
(* The description family: the composites whose toString is composed of    *)
(* their children's, with toString on what was built, and test on maps.    *)
(***************************************************************************)
\* the keys a:b and a"b
S_colon == << "a", ":", "b" >>
S_quote == << "a", "\"", "b" >>

\* the children given to the composites
Children == Built \cup {sentry.string, sentry.number}

\* the field objects given to structOf: {a: string}, {a: string, b: M},
\* {"a:b": string} and {'a"b': string}
DescribedObjects ==
    { << Field(S_a, sentry.string) >>, << Field(S_colon, sentry.string) >>,
      << Field(S_quote, sentry.string) >> }
        \cup { << Field(S_a, sentry.string), Field(S_b, b) >> : b \in Children }

MapCandidates == { Ref(13), Ref(34), Ref(35), Ref(36), Ref(37), Str(S_a) }

NextDescribe ==
    \/ /\ Room(MaxModels)
       /\ \/ \E type \in Children : ArrayOf(type)
          \/ \E b \in Children : TupleOf(<< sentry.string, b >>)
          \/ \E b \in Children \ {sentry.string} : UnionOf(<< sentry.string, b >>)
          \/ \E b \in Children \ {sentry.string} : IntersectionOf(<< sentry.string, b >>)
          \/ \E valueType \in Children : MapOf(sentry.string, valueType)
          \/ OptionalOf(sentry.number)
          \/ \E object \in DescribedObjects : StructOf(object)
    \/ \E id \in Built : ToStringCall(id)
    \/ \E id \in Built, x \in MapCandidates : models[id].kind = "Map" /\ TestCall(id, x)
    \/ Resume

SpecDescribe == Init /\ [][NextDescribe]_vars

(***************************************************************************)
(* The whole facade: every behaviour of a family is a behaviour of Spec.   *)
(* Its state space is the product of the families' and is explored one     *)
(* family at a time.                                                       *)
(***************************************************************************)
Next == NextStruct \/ NextRefine \/ NextCombine \/ NextPattern \/ NextShape \/ NextWrap \/ NextDescribe

Spec == Init /\ [][Next]_vars

(***************************************************************************)
(* Claims about the struct family, checked under SpecStruct.               *)
(***************************************************************************)
\* the descriptor the last call was made on
Receiver == models[last.model]

\* whether descriptor id accepts x
Accepts(id, x) == Test(models[id], x, 1).out = "true"

\* a declared field is satisfied by x: its key is present (own or inherited)
\* and the value read satisfies the field's descriptor, or its key is absent
\* and the field's descriptor is an optional marker
FieldHolds(field, x) ==
    IF HasProperty(x, field.key)
    THEN Get(x, field.key).thrown = "none" /\ Accepts(field.model, Get(x, field.key).value)
    ELSE IsNeoOptional(models[field.model])

\* x is a non-null object (typeof x is "object") that satisfies every
\* declared field
StructHolds(object, x) ==
    /\ TypeOf(x) = "object" /\ x # Null
    /\ \A i \in DOMAIN object : FieldHolds(object[i], x)

\* C3: structOf(fields).test(x) is true iff x is a non-null object and every
\* declared field k is satisfied: if k is present in x then
\* fields[k].test(x[k]) holds, and if k is absent then fields[k] is an
\* optional marker.
C3_StructTest ==
    (last.op = "test" /\ Receiver.kind = "NeoObject")
        => (last.out = "true" <=> StructHolds(Receiver.object, last.value))

\* structOf({a: string, b: optional(number)}) has accepted {a: "x"}
C3_Witness ==
    /\ last.op = "test" /\ Receiver.kind = "NeoObject"
    /\ Len(Receiver.object) = 2
    /\ Receiver.object[1] = Field(S_a, sentry.string)
    /\ Receiver.object[2].key = S_b
    /\ IsNeoOptional(models[Receiver.object[2].model])
    /\ models[Receiver.object[2].model].type = sentry.number
    /\ last.value = Ref(14)
    /\ last.out = "true"

\* the declared field names of a struct
DeclaredKeys(object) == { object[i].key : i \in DOMAIN object }

\* C4: structOf(fields).exact().test(x) is true iff structOf(fields).test(x)
\* is true and every own (enumerable) key of x is a declared field name,
\* whatever the key's name.
C4_ExactTest ==
    (last.op = "test" /\ Receiver.kind = "NeoObjectExact")
        => (last.out = "true"
              <=> /\ Accepts(Receiver.that, last.value)
                  /\ \A i \in DOMAIN ObjectKeys(last.value.ref) :
                        ObjectKeys(last.value.ref)[i] \in DeclaredKeys(Receiver.object))

(***************************************************************************)
(* Claims about the refinement family, checked under SpecRefine.           *)
(***************************************************************************)
\* the classes the refinement builders return
RefinementKinds ==
    {"NumberNonNaN", "IntNonNaN", "NumberInt", "StringWithLength", "StringWithPattern",
     "ArrayWithLength", "NeoObjectExact"}

\* the descriptors a refinement was obtained from, through any chain of
\* refinement builders
RECURSIVE Bases(_)
Bases(id) ==
    IF models[id].kind \in RefinementKinds
    THEN {models[id].that} \cup Bases(models[id].that)
    ELSE { }

\* min <= n <= max
WithinRange(m, n) == NumLe(m.min, Num(n)) /\ NumLe(Num(n), m.max)

\* a fresh copy of the pattern finds a match in str: anywhere, or at the
\* start when the pattern is sticky
Matches(rx, str) ==
    IF rx.sticky THEN str # << >> /\ str[1] = rx.source
    ELSE \E i \in DOMAIN str : str[i] = rx.source

\* the predicate a refinement adds, on a value its base accepts
Added(m, x) ==
    CASE m.kind \in {"NumberNonNaN", "IntNonNaN"} -> ~(x.cls = "NaN")
      [] m.kind = "NumberInt" -> x.cls = "finite" /\ x.twice % 2 = 0
      [] m.kind = "StringWithLength" -> WithinRange(m, Len(x.s))
      [] m.kind = "StringWithPattern" -> Matches(regexps[m.pattern], x.s)
      [] m.kind = "ArrayWithLength" -> WithinRange(m, Len(objects[x.ref].items))

\* C5: refinement monotonicity.  When a descriptor obtained by a chain of
\* refinement builders (nonNaN, int, withLength, withPattern, exact) accepts
\* v, every descriptor of the chain it was obtained from accepts v; and the
\* refinement accepts v exactly when its base accepts v and the predicate
\* the builder adds holds of v (the predicate exact adds is the subject of
\* C4).
C5_RefinementMonotone ==
    (last.op = "test" /\ Receiver.kind \in RefinementKinds)
        => /\ last.out = "true" => \A b \in Bases(last.model) : Accepts(b, last.value)
           /\ Receiver.kind # "NeoObjectExact"
                 => (last.out = "true"
                        <=> Accepts(Receiver.that, last.value) /\ Added(Receiver, last.value))

\* sentry.int.nonNaN() has rejected 1.5, which only its base rules out
C5_Witness ==
    /\ last.op = "test" /\ Receiver.kind = "IntNonNaN"
    /\ last.value = Half(3)
    /\ last.out = "false"
    /\ ~Accepts(Receiver.that, last.value)

\* the range the last withLength call was given, with its defaults
GivenMin == IF last.min = Undefined THEN Num(0) ELSE last.min
GivenMax == IF last.max = Undefined THEN Infinity ELSE last.max

LengthKinds == {"StringWithLength", "ArrayWithLength"}

\* C8: withLength throws TypeSentryError at build time exactly when
\* min > max or min < 0 (min defaulting to 0 and max to Infinity), returning
\* no descriptor; a descriptor it returns holds the given range unclamped;
\* no length-refined descriptor in the heap holds an invalid range, and
\* test on one never throws the construction error or a range error.
C8_WithLengthEager ==
    /\ last.op = "withLength"
          => /\ last.out = "TypeSentryError"
                   <=> (NumLt(GivenMax, GivenMin) \/ NumLt(GivenMin, Num(0)))
             /\ last.out = "TypeSentryError" => last.made = 0
             /\ last.out # "TypeSentryError"
                   => /\ last.out = "return" /\ last.made = Len(models)
                      /\ models[last.made].kind \in LengthKinds
                      /\ models[last.made].that = last.model
                      /\ models[last.made].min = GivenMin
                      /\ models[last.made].max = GivenMax
    /\ \A id \in ModelIds :
          models[id].kind \in LengthKinds
              => ~(NumLt(models[id].max, models[id].min) \/ NumLt(models[id].min, Num(0)))
    /\ (last.op = "test" /\ Receiver.kind \in LengthKinds)
          => last.out \notin {"TypeSentryError", "RangeError"}

\* withLength({min: 2, max: 1}) has thrown on an array descriptor
C8_Witness ==
    /\ last.op = "withLength"
    /\ models[last.model].kind \in ArrayKinds
    /\ last.min = Num(2) /\ last.max = Num(1)
    /\ last.out = "TypeSentryError"
    /\ last.made = 0

\* C9: arrayOf(M).withLength({min, max}).test(x) is true iff x is an array,
\* every element of x (every index that holds a value; a sparse array's
\* holes are not elements) satisfies M, and min <= x.length <= max.
C9_ArrayWithLength ==
    (last.op = "test" /\ Receiver.kind = "ArrayWithLength"
        /\ models[Receiver.that].kind = "Array")
        => (last.out = "true"
              <=> /\ IsArray(last.value)
                  /\ \A i \in DOMAIN objects[last.value.ref].items :
                        objects[last.value.ref].items[i] # Hole
                            => Accepts(Receiver.type, objects[last.value.ref].items[i])
                  /\ WithinRange(Receiver, Len(objects[last.value.ref].items)))

\* arrayOf(string).withLength({min: 1, max: 3}) has rejected a 4-element
\* array of strings
C9_Witness ==
    /\ last.op = "test" /\ Receiver.kind = "ArrayWithLength"
    /\ models[Receiver.that].kind = "Array"
    /\ Receiver.type = sentry.string
    /\ Receiver.min = Num(1) /\ Receiver.max = Num(3)
    /\ last.value = Ref(24)
    /\ last.out = "false"

(***************************************************************************)
(* Claims about the combinator family, checked under SpecCombine.          *)
(***************************************************************************)
\* C1: M.cast(v) returns v itself, exactly when M.test(v) is true, or
\* throws TypeSentryError; it returns no other value and throws no other
\* error, whatever v is.
C1_CastContract ==
    last.op = "cast"
        => /\ last.out \in {"return", "TypeSentryError"}
           /\ last.out = "return" <=> Accepts(last.model, last.value)
           /\ last.out = "return" => last.ret = last.value

\* C2: intersectionOf(A, B).test(v) is true only when A.test(v) and
\* B.test(v) are both true.
C2_IntersectionAnd ==
    (last.op = "test" /\ Receiver.kind = "Intersection" /\ last.out = "true")
        => \A i \in DOMAIN Receiver.types : Accepts(Receiver.types[i], last.value)

\* C6: test never throws: it returns a boolean for every descriptor and
\* every candidate.
C6_TestNeverThrows == last.op = "test" => last.out \in {"true", "false"}

\* the depth of the descriptor tree under m: a leaf has depth 1, and a
\* refinement is one level above its base
RECURSIVE Depth(_)
Depth(m) ==
    CASE m.kind \in RefinementKinds -> 1 + Depth(models[m.that])
      [] m.kind \in {"Array", "NeoOptional", "Nullable", "Undefindable"} ->
            1 + Depth(models[m.type])
      [] m.kind \in {"Union", "Intersection"} ->
            1 + Max({0} \cup { Depth(models[m.types[i]]) : i \in DOMAIN m.types })
      [] m.kind = "Tuple" ->
            1 + Max({0} \cup { Depth(models[m.tuple[i]]) : i \in DOMAIN m.tuple })
      [] m.kind \in {"Record", "Map"} ->
            1 + Max({Depth(models[m.keyType]), Depth(models[m.valueType])})
      [] m.kind = "NeoObject" ->
            1 + Max({0} \cup { Depth(models[m.object[i].model]) : i \in DOMAIN m.object })
      [] OTHER -> 1

ValidationOps == {"test", "cast", "toString"}

C7_Deterministic ==
    (last.op = "test" /\ pinned.op = "test"
        /\ last.model = pinned.model /\ last.value = pinned.value)
        => last.out = pinned.out

\* a withPattern descriptor built on the global pattern was asked again
\* about a string it had accepted, after the caller moved the pattern's
\* lastIndex, and accepted it again
C7_Witness ==
    /\ last.op = "test" /\ pinned.op = "test"
    /\ last.model = pinned.model /\ last.value = pinned.value
    /\ Receiver.kind = "StringWithPattern"
    /\ regexps[Receiver.pattern].global
    /\ regexps[Receiver.pattern].lastIndex > 0
    /\ last.value = Str(S_a)
    /\ last.out = "true"

(***************************************************************************)
(* More claims about the combinator family, checked under SpecCombine.     *)
(***************************************************************************)
\* what the test of descriptor id on x returns or throws
Outcome(id, x) == Test(models[id], x, 1).out

\* C11: unionOf(M1..Mn).test(v) is true iff a member accepts v, the
\* members being asked in declaration order up to the first that accepts:
\* the members declared before it have returned false, and the members
\* declared after it are not asked (a member that throws ends the test).
C11_UnionSome ==
    (last.op = "test" /\ Receiver.kind = "Union")
        => (last.out = "true"
              <=> \E i \in DOMAIN Receiver.types :
                     /\ Accepts(Receiver.types[i], last.value)
                     /\ \A j \in 1..(i - 1) : Outcome(Receiver.types[j], last.value) = "false")

\* unionOf(string, number) has accepted "x", which its second member rejects
C11_Witness ==
    /\ last.op = "test" /\ Receiver.kind = "Union"
    /\ Receiver.types = << sentry.string, sentry.number >>
    /\ last.value = Str(S_x)
    /\ ~Accepts(sentry.number, last.value)
    /\ last.out = "true"

(***************************************************************************)
(* Claims about the shape family, checked under SpecShape.                 *)
(***************************************************************************)
\* C12: tupleOf(M0..Mn-1).test(x) is true iff x is an array, x.length is
\* the declared arity n, and Mi accepts x[i] for every index i < n; a longer
\* or shorter array is rejected even when its prefix matches.
C12_TupleTest ==
    (last.op = "test" /\ Receiver.kind = "Tuple")
        => (last.out = "true"
              <=> /\ IsArray(last.value)
                  /\ Len(objects[last.value.ref].items) = Len(Receiver.tuple)
                  /\ \A i \in DOMAIN Receiver.tuple :
                        Accepts(Receiver.tuple[i], Get(last.value, IndexKey(i - 1)).value))

\* tupleOf(string, number) has rejected ["a", 1, true], whose prefix matches
C12_Witness ==
    /\ last.op = "test" /\ Receiver.kind = "Tuple"
    /\ Receiver.tuple = << sentry.string, sentry.number >>
    /\ last.value = Ref(30)
    /\ Accepts(sentry.string, Get(last.value, IndexKey(0)).value)
    /\ Accepts(sentry.number, Get(last.value, IndexKey(1)).value)
    /\ last.out = "false"

\* C14: recordOf(K, V).test(x) is true iff x is a non-null object (typeof x
\* is "object") and, for every own entry (k, v) of x (Object.entries: the
\* own enumerable string keys), K accepts k and V accepts v; an object with
\* no own entries is accepted whatever K and V are.
C14_RecordTest ==
    (last.op = "test" /\ Receiver.kind = "Record")
        => (last.out = "true"
              <=> /\ TypeOf(last.value) = "object" /\ last.value # Null
                  /\ \A i \in DOMAIN ObjectKeys(last.value.ref) :
                        /\ Accepts(Receiver.keyType, Str(ObjectKeys(last.value.ref)[i]))
                        /\ Get(last.value, ObjectKeys(last.value.ref)[i]).thrown = "none"
                        /\ Accepts(Receiver.valueType,
                                   Get(last.value, ObjectKeys(last.value.ref)[i]).value))

\* recordOf(never, V) has accepted an object that has no own entries
C14_Witness ==
    /\ last.op = "test" /\ Receiver.kind = "Record"
    /\ Receiver.keyType = sentry.never
    /\ last.value \in {Ref(13), Ref(19)}
    /\ ObjectKeys(last.value.ref) = << >>
    /\ last.out = "true"

(***************************************************************************)
(* More claims about the struct family, checked under SpecStruct.          *)
(***************************************************************************)
\* C15: the optional marker does not change acceptance: optionalOf(M).test(v)
\* is M.test(v) for every v, undefined included; and a struct accepts x only
\* if every optional field whose key is present in x holds a value that the
\* marker's inner descriptor accepts, and every field whose key is absent is
\* an optional marker.
C15_OptionalMarker ==
    /\ (last.op = "test" /\ IsNeoOptional(Receiver))
          => last.out = Outcome(Receiver.type, last.value)
    /\ (last.op = "test" /\ Receiver.kind = "NeoObject" /\ last.out = "true")
          => \A i \in DOMAIN Receiver.object :
                IF HasProperty(last.value, Receiver.object[i].key)
                THEN IsNeoOptional(models[Receiver.object[i].model])
                        => Accepts(models[Receiver.object[i].model].type,
                                   Get(last.value, Receiver.object[i].key).value)
                ELSE IsNeoOptional(models[Receiver.object[i].model])

\* structOf({a: string, b: optional(number)}) has rejected {a: "x", b: "b"}:
\* the optional field's key is present and its value is not a number
C15_Witness ==
    /\ last.op = "test" /\ Receiver.kind = "NeoObject"
    /\ Len(Receiver.object) = 2
    /\ Receiver.object[1] = Field(S_a, sentry.string)
    /\ Receiver.object[2].key = S_b
    /\ IsNeoOptional(models[Receiver.object[2].model])
    /\ last.value = Ref(28)
    /\ HasProperty(last.value, S_b)
    /\ last.out = "false"

(***************************************************************************)
(* Claims about the wrapper family, checked under SpecWrap.                *)
(***************************************************************************)
\* C16: nullableOf(M).test(v) is true iff M.test(v) is true or v is null,
\* and undefindableOf(M).test(v) is true iff M.test(v) is true or v is
\* undefined; neither accepts the other absent value unless M does.
C16_NullableUndefindable ==
    /\ (last.op = "test" /\ Receiver.kind = "Nullable")
          => (last.out = "true" <=> (Accepts(Receiver.type, last.value) \/ last.value = Null))
    /\ (last.op = "test" /\ Receiver.kind = "Undefindable")
          => (last.out = "true"
                <=> (Accepts(Receiver.type, last.value) \/ last.value = Undefined))

\* nullableOf(string) has rejected undefined
C16_Witness ==
    /\ last.op = "test" /\ Receiver.kind = "Nullable"
    /\ Receiver.type = sentry.string
    /\ last.value = Undefined
    /\ last.out = "false"

\* C17: literalOf(c).test(v) is true iff v is identical to c: the same kind
\* and the same value, without coercion.
C17_LiteralIdentity ==
    (last.op = "test" /\ Receiver.kind = "Literal")
        => (last.out = "true" <=> last.value = Receiver.value)

(***************************************************************************)
(* Claims about enumLikeOf, checked under SpecCombine.                     *)
(***************************************************************************)
\* C18: enumLikeOf(E).test(v) is true iff v is a string or a number and v
\* is one of the values of E; a value of any other kind is rejected.
C18_EnumLikeTest ==
    (last.op = "test" /\ Receiver.kind = "EnumLike")
        => /\ last.out \in {"true", "false"}
           /\ last.out = "true"
                 <=> /\ last.value.t \in {"string", "number"}
                     /\ \E i \in DOMAIN Receiver.enumeration :
                           Receiver.enumeration[i].value = last.value

\* enumLikeOf({A: "a", B: 1}) has accepted 1 and nothing but its values
C18_Witness ==
    /\ last.op = "test" /\ Receiver.kind = "EnumLike"
    /\ Receiver.enumeration = Enumeration
    /\ last.value = Num(1)
    /\ last.out = "true"

(***************************************************************************)
(* Claims about toString, checked under SpecDescribe.                      *)
(***************************************************************************)
\* the description of descriptor id
Describe(id) == ToStringAt(models[id], 1).s

\* the composites whose description C19 spells out
ComposedKinds == ArrayKinds \cup NeoObjectKinds \cup {"Tuple", "Union", "Intersection", "Map"}

\* the description of the composite m as composed of its children's, the
\* struct's keys being written as keys[1], keys[2], ...
Composition(m, keys) ==
    CASE m.kind \in ArrayKinds -> Describe(m.type) \o << "[", "]" >>
      [] m.kind = "Tuple" ->
            << "[" >> \o Join([i \in DOMAIN m.tuple |-> Describe(m.tuple[i])], << ",", " " >>)
                \o << "]" >>
      [] m.kind \in NeoObjectKinds ->
            << "{" >>
                \o Join([i \in DOMAIN m.object |->
                            keys[i]
                                \o (IF IsNeoOptional(models[m.object[i].model])
                                    THEN << "?", ":", " " >> ELSE << ":", " " >>)
                                \o Describe(m.object[i].model)],
                        << ";", " " >>)
                \o << "}" >>
      [] m.kind = "Union" ->
            Join([i \in DOMAIN m.types |-> Describe(m.types[i])], << " ", "|", " " >>)
      [] m.kind = "Intersection" ->
            Join([i \in DOMAIN m.types |-> Describe(m.types[i])], << " ", "&", " " >>)
      [] m.kind = "Map" ->
            S_Map \o << "<" >> \o Describe(m.keyType) \o << ",", " " >>
                \o Describe(m.valueType) \o << ">" >>

WrittenKey(key) ==
    IF \E i \in DOMAIN key : key[i] = ":"
    THEN << "\"" >> \o key \o << "\"" >>
    ELSE Join([i \in DOMAIN key |-> IF key[i] = "\"" THEN << "\\", "\"" >> ELSE << key[i] >>],
              << >>)

C20_Singletons ==
    /\ Len(models) >= Len(Singletons)
    /\ \A id \in DOMAIN Singletons : models[id] = Singletons[id]
    /\ \A f \in DOMAIN sentry : sentry[f] \in DOMAIN Singletons
    /\ \A f \in DOMAIN sentry, g \in DOMAIN sentry : f # g => sentry[f] # sentry[g]
    /\ last.made # 0 => last.made > Len(Singletons) /\ last.made = Len(models)
    /\ (last.op = "test" /\ last.model \in {sentry.any, sentry.unknown}) => last.out = "true"
    /\ (last.op = "test" /\ last.model = sentry.never) => last.out = "false"

\* after two builder calls, unknown has accepted a symbol as any does, and
\* never rejects it
C20_Witness ==
    /\ Len(models) = Len(Singletons) + 2
    /\ last.op = "test" /\ last.model = sentry.unknown
    /\ last.value = Sym(S_a)
    /\ last.out = "true"
    /\ Accepts(sentry.any, last.value)
    /\ ~Accepts(sentry.never, last.value)

(***************************************************************************)
(* Claims about immutability, checked under SpecRefine.                    *)
(***************************************************************************)
\* a builder call has returned a new descriptor, distinct from the receiver
\* and from every descriptor there was
ReturnsNew == last.made # 0 => last.made = Len(models) /\ last.made # last.model

\* a step leaves every descriptor as it was; and when the heap changes
\* (a builder has returned), the test of every descriptor there was returns
\* or throws the same on every candidate, and its description is the same
DescriptorsKept ==
    /\ Len(models') >= Len(models)
    /\ \A id \in DOMAIN models : models'[id] = models[id]
    /\ models' # models
          => \A id \in DOMAIN models :
                /\ Describe(id)' = Describe(id)
                /\ \A x \in RefineCandidates : Outcome(id, x)' = Outcome(id, x)

\* C13: descriptors are immutable: a builder returns a new descriptor
\* distinct from its base, and no builder, test, cast or toString call
\* changes a descriptor that exists or what its test and toString give.
C13_Immutable == []ReturnsNew /\ [][DescriptorsKept]_vars

\* exact() has returned a new descriptor, and the struct it was called on
\* still accepts an object with an extra key
C13_Witness ==
    /\ last.op = "exact" /\ last.made # last.model
    /\ models[last.model].kind = "NeoObject"
    /\ models[last.made].kind = "NeoObjectExact"
    /\ Accepts(last.model, Ref(15))
    /\ ~Accepts(last.made, Ref(15))

(***************************************************************************)
(* The event emitter (src/src/index.ts): EventHandlerRegistry and          *)
(* AbstractEventEmitter, for one event.  A fire call takes the sorted list *)
(* of the handlers once and calls them in turn; a handler is client code,  *)
(* and while it runs it may call on, once, off and emit itself.            *)
(***************************************************************************)
\* handlers that are ever registered
MaxHandlers == 2
\* fire calls nested in one another
MaxDepth == 2
\* calls of one callback that are told apart (the count stops there)
MaxCalls == 2

\* enum EventHandlerPriority
EARLIEST == 5
ERALIER == 4
NORMAL == 3
LATER == 2
LATEST == 1

\* the priorities the client uses
Priorities == {EARLIEST, NORMAL, LATEST}

\* an entry of the handlers Map; once tells the wrapper of once() from a
\* callback given to on()
EventHandler(id, priority, once) == [id |-> id, priority |-> priority, once |-> once]

\* Array.prototype.sort's place for h in a list sorted with
\* (a, b) => b.priority - a.priority: behind every handler that does not
\* compare after it (the sort is stable)
SortedInsert(sorted, h) ==
    LET n == Cardinality({ i \in DOMAIN sorted : sorted[i].priority - h.priority >= 0 })
    IN  SubSeq(sorted, 1, n) \o << h >> \o SubSeq(sorted, n + 1, Len(sorted))

\* a faulty variant of getSortedHandlers, which C22 is tested against: the
\* Map's values as they are
getHandlersUnsorted(hs) == hs

\* EventHandlerRegistry.getSortedHandlers, on the Map's values
RECURSIVE getSortedHandlers(_)
getSortedHandlers(hs) ==
    IF hs = << >> THEN << >>
    ELSE SortedInsert(getSortedHandlers(SubSeq(hs, 1, Len(hs) - 1)), hs[Len(hs)])

\* Map.prototype.has
Has(hs, id) == \E i \in DOMAIN hs : hs[i].id = id

\* Map.prototype.delete
RECURSIVE Delete(_, _)
Delete(hs, id) ==
    IF hs = << >> THEN << >>
    ELSE IF hs[1].id = id THEN Delete(Tail(hs), id)
    ELSE << hs[1] >> \o Delete(Tail(hs), id)

\* the fire call that is running, if any
Top == dispatch[Len(dispatch)]

\* client code is running: outside every fire call, or in a callback
MayCall == IF dispatch = << >> THEN TRUE ELSE Top.running

\* EventHandlerRegistry.register, through on (once = FALSE) or once
register(priority, once) ==
    /\ MayCall
    /\ handlerNextId < MaxHandlers
    /\ handlers' = Append(handlers, EventHandler(handlerNextId, priority, once))
    /\ handlerNextId' = handlerNextId + 1
    /\ issued' = Append(issued, [priority |-> priority, once |-> once, calls |-> 0,
                                 removed |-> FALSE, late |-> FALSE])
    /\ returned' = [NoReturn EXCEPT !.op = IF once THEN "once" ELSE "on",
                                    !.id = handlerNextId, !.was = handlers]
    /\ UNCHANGED dispatch

\* AbstractEventEmitter.on
On(priority) == register(priority, FALSE) /\ UNCHANGED besidesEmitter

\* AbstractEventEmitter.once
Once(priority) == register(priority, TRUE) /\ UNCHANGED besidesEmitter

\* what EventHandlerRegistry.unregister(id) leaves of the history
Unregistered(id) ==
    IF Has(handlers, id) THEN [issued EXCEPT ![id + 1].removed = TRUE] ELSE issued

\* AbstractEventEmitter.off, EventHandlerRegistry.unregister
Off(id) ==
    /\ MayCall
    /\ handlers' = Delete(handlers, id)
    /\ issued' = Unregistered(id)
    /\ returned' = [NoReturn EXCEPT !.op = "off", !.id = id, !.was = handlers,
                                    !.value = Has(handlers, id)]
    /\ UNCHANGED <<handlerNextId, dispatch, besidesEmitter>>

\* AbstractEventEmitter.emit, EventHandlerRegistry.fire: the list is taken
Emit ==
    /\ MayCall
    /\ Len(dispatch) < MaxDepth
    /\ dispatch' = Append(dispatch, [sorted |-> getSortedHandlers(handlers), at |-> 0,
                                     running |-> FALSE, was |-> handlers, log |-> << >>])
    /\ returned' = NoReturn
    /\ UNCHANGED <<handlers, handlerNextId, issued, besidesEmitter>>

\* fire's forEach calls the next handler of its list
Invoke ==
    /\ dispatch # << >>
    /\ ~Top.running
    /\ Top.at < Len(Top.sorted)
    /\ LET h == Top.sorted[Top.at + 1]
       IN  /\ dispatch' = [dispatch EXCEPT ![Len(dispatch)].at = Top.at + 1,
                                           ![Len(dispatch)].running = TRUE,
                                           ![Len(dispatch)].log = Append(Top.log, h.id)]
           /\ issued' = [issued EXCEPT
                 ![h.id + 1].calls = IF @ < MaxCalls THEN @ + 1 ELSE @,
                 ![h.id + 1].late = @ \/ issued[h.id + 1].removed]
    /\ returned' = NoReturn
    /\ UNCHANGED <<handlers, handlerNextId, besidesEmitter>>

\* the callback returns; the wrapper of once() then calls off with its id
Return ==
    /\ dispatch # << >>
    /\ Top.running
    /\ LET h == Top.sorted[Top.at]
       IN  /\ handlers' = IF h.once THEN Delete(handlers, h.id) ELSE handlers
           /\ issued' = IF h.once THEN Unregistered(h.id) ELSE issued
    /\ dispatch' = [dispatch EXCEPT ![Len(dispatch)].running = FALSE]
    /\ returned' = NoReturn
    /\ UNCHANGED <<handlerNextId, besidesEmitter>>

\* forEach is through: fire and emit return
Fired ==
    /\ dispatch # << >>
    /\ ~Top.running
    /\ Top.at = Len(Top.sorted)
    /\ returned' = [NoReturn EXCEPT !.op = "emit", !.was = Top.was, !.log = Top.log]
    /\ dispatch' = SubSeq(dispatch, 1, Len(dispatch) - 1)
    /\ UNCHANGED <<handlers, handlerNextId, issued, besidesEmitter>>

\* ids the client passes to off: the ones issued, and one that never is
OffIds == 0 .. MaxHandlers

NextEmitter ==
    \/ \E priority \in Priorities : On(priority)
    \/ \E priority \in Priorities : Once(priority)
    \/ \E id \in OffIds : Off(id)
    \/ Emit
    \/ Invoke
    \/ Return
    \/ Fired

SpecEmitter == Init /\ [][NextEmitter]_vars

(***************************************************************************)
(* The registry used directly: register, unregister and fire are called    *)
(* between dispatches only, by callbacks that do not call the registry.    *)
(***************************************************************************)
NextRegistry ==
    \/ /\ dispatch = << >>
       /\ \/ \E priority \in Priorities : On(priority)
          \/ \E priority \in Priorities : Once(priority)
          \/ \E id \in OffIds : Off(id)
          \/ Emit
    \/ Invoke
    \/ Return
    \/ Fired

SpecRegistry == Init /\ [][NextRegistry]_vars

(***************************************************************************)
(* Claims about the event emitter.                                         *)
(***************************************************************************)
\* the priority a handler id was registered with
PriorityOf(id) == issued[id + 1].priority

\* C22: a fire call that has returned invoked each handler registered when
\* it was called exactly once, in non-increasing priority order, and the
\* handlers of equal priority in the order they were registered.
C22_FireOrder ==
    returned.op = "emit" =>
        /\ Len(returned.log) = Len(returned.was)
        /\ \A i \in DOMAIN returned.was :
              Cardinality({ j \in DOMAIN returned.log :
                               returned.log[j] = returned.was[i].id }) = 1
        /\ \A i, j \in DOMAIN returned.log :
              i < j => /\ PriorityOf(returned.log[i]) >= PriorityOf(returned.log[j])
                       /\ PriorityOf(returned.log[i]) = PriorityOf(returned.log[j])
                             => returned.log[i] < returned.log[j]

\* fire has called the handler registered second before the one registered
\* first, whose priority is lower
C22_Witness ==
    /\ returned.op = "emit"
    /\ returned.log = << 1, 0 >>
    /\ PriorityOf(1) > PriorityOf(0)

\* C23: the callback of a handler registered with once is invoked at most
\* once, whatever is emitted, also from inside a dispatch.
C23_OnceAtMostOnce ==
    \A i \in DOMAIN issued : issued[i].once => issued[i].calls <= 1

\* C24: handler ids are pairwise distinct and never reused; off returns
\* true exactly when its id is registered; and a handler is never invoked
\* after off has returned true for its id.
C24_HandlerIds ==
    /\ \A i, j \in DOMAIN handlers : i # j => handlers[i].id # handlers[j].id
    /\ returned.op \in {"on", "once"} =>
          /\ returned.id = Len(issued) - 1
          /\ \A i \in DOMAIN returned.was : returned.was[i].id # returned.id
    /\ returned.op = "off" => (returned.value <=> Has(returned.was, returned.id))
    /\ \A i \in DOMAIN issued : ~issued[i].late

(***************************************************************************)
(* IntRange (src/src/utils/NumberRange.ts).  A range is its two ends, min  *)
(* and max; every integer of the model is a safe integer.                  *)
(***************************************************************************)
\* the largest end, in absolute value, the client builds a range from
MaxEnd == 2

\* a call that returned value, and a call that threw
Gave(value) == [out |-> "return", value |-> value]
Threw(error) == [out |-> error, value |-> Undefined]

\* Math.min and Math.max, on numbers that are not NaN
MathMin(a, b) == IF NumLe(a, b) THEN a ELSE b
MathMax(a, b) == IF NumLe(a, b) THEN b ELSE a

\* Number.isFinite
NumberIsFinite(x) == x.t = "number" /\ x.cls = "finite"

\* Number.isSafeInteger
NumberIsSafeInteger(x) == NumberIsInteger(x)

\* the integer a finite number of integral value stands for
IntegerOf(x) == x.twice \div 2

\* IntRange.minMax(value1, value2): the constructors of Range, FiniteRange
\* and IntRange in turn
IntRangeMinMax(value1, value2) ==
    IF NumberIsNaN(value1) \/ NumberIsNaN(value2) THEN Threw("TypeError")
    ELSE LET min == MathMin(value1, value2)
             max == MathMax(value1, value2)
         IN  IF ~NumberIsFinite(min) \/ ~NumberIsFinite(max) THEN Threw("TypeError")
             ELSE IF ~(NumberIsSafeInteger(min) /\ NumberIsSafeInteger(max))
             THEN Threw("TypeError")
             ELSE Gave([min |-> min, max |-> max])

\* Range.within
RangeWithin(r, value) == NumLe(r.min, value) /\ NumLe(value, r.max)

\* IntRange.within
IntRangeWithin(r, value) ==
    IF ~NumberIsSafeInteger(value) THEN Threw("TypeError")
    ELSE Gave(Bool(RangeWithin(r, value)))

\* IntRange.ints: Array(max - min), filled and mapped to i + min
IntRangeInts(r) ==
    { Num(i + IntegerOf(r.min)) : i \in 0 .. (IntegerOf(r.max) - IntegerOf(r.min) - 1) }

\* the numbers the client passes for an end or a value
Ends == { Num(n) : n \in -MaxEnd .. MaxEnd } \cup {Half(1), NaN, Infinity}

\* IntRange.minMax
MinMax(value1, value2) ==
    LET r == IntRangeMinMax(value1, value2)
    IN  /\ intRange' = IF r.out = "return" THEN r.value ELSE intRange
        /\ reply' = Reply("minMax", << value1, value2 >>, r.out, r.value, intRange)
        /\ UNCHANGED <<indentationSpaceCount, hiddenPrototypes, besidesUtilities>>

\* range.getMin(), range.getMax()
GetMin ==
    /\ intRange # Undefined
    /\ reply' = Reply("getMin", Undefined, "return", intRange.min, intRange)
    /\ UNCHANGED <<intRange, indentationSpaceCount, hiddenPrototypes, besidesUtilities>>

GetMax ==
    /\ intRange # Undefined
    /\ reply' = Reply("getMax", Undefined, "return", intRange.max, intRange)
    /\ UNCHANGED <<intRange, indentationSpaceCount, hiddenPrototypes, besidesUtilities>>

\* range.within(value)
Within(value) ==
    /\ intRange # Undefined
    /\ LET r == IntRangeWithin(intRange, value)
       IN  reply' = Reply("within", value, r.out, r.value, intRange)
    /\ UNCHANGED <<intRange, indentationSpaceCount, hiddenPrototypes, besidesUtilities>>

\* range.ints()
IntsCall ==
    /\ intRange # Undefined
    /\ reply' = Reply("ints", Undefined, "return", IntRangeInts(intRange), intRange)
    /\ UNCHANGED <<intRange, indentationSpaceCount, hiddenPrototypes, besidesUtilities>>

NextRange ==
    \/ \E value1, value2 \in Ends : MinMax(value1, value2)
    \/ GetMin
    \/ GetMax
    \/ \E value \in Ends : Within(value)
    \/ IntsCall

SpecRange == Init /\ [][NextRange]_vars

(***************************************************************************)
(* Claims about IntRange.                                                  *)
(***************************************************************************)
\* the integers from the range's min to its max, both included
Between(r) == { Num(v) : v \in IntegerOf(r.min) .. IntegerOf(r.max) }

\* C29: the range an IntRange.minMax call has built has min <= max, and
\* ints() returns exactly the integers from min to max, both included,
\* which are the integers within(v) is true for.
C29_IntsOfRange ==
    intRange # Undefined =>
        /\ NumLe(intRange.min, intRange.max)
        /\ Between(intRange)
              = { v \in Ends : NumberIsSafeInteger(v)
                                  /\ IntRangeWithin(intRange, v) = Gave(Bool(TRUE)) }
        /\ reply.op = "ints" => reply.value = Between(intRange)

(***************************************************************************)
(* Serializer (src/unnamed/part_001): the indentation count and the set    *)
(* of hidden prototypes.  Classes are the constructor functions of the     *)
(* object graph.                                                           *)
(***************************************************************************)
\* Serializer.properties.alwaysHiddenPrototypes, as far as the object graph
\* holds them: Function.prototype
AlwaysHiddenPrototypes == { Ref(2) }

\* set indentationSpaceCount(value)
SetIndentationSpaceCount(value) ==
    LET within == IntRangeWithin(IntRangeMinMax(Num(0), Num(20)).value, value)
        out == IF within.out # "return" THEN within.out
               ELSE IF within.value = Bool(TRUE) THEN "TypeError"
               ELSE "return"
    IN  /\ indentationSpaceCount' = IF out = "return" THEN value ELSE indentationSpaceCount
        /\ reply' = Reply("setIndentationSpaceCount", value, out, Undefined,
                          indentationSpaceCount)
        /\ UNCHANGED <<intRange, hiddenPrototypes, besidesUtilities>>

\* get indentationSpaceCount()
GetIndentationSpaceCount ==
    /\ reply' = Reply("getIndentationSpaceCount", Undefined, "return",
                      indentationSpaceCount, indentationSpaceCount)
    /\ UNCHANGED <<intRange, indentationSpaceCount, hiddenPrototypes, besidesUtilities>>

\* clazz.prototype
PrototypeOf(clazz) == Get(clazz, S_prototype).value

\* the check hidePrototypeOf and unhidePrototypeOf begin with
PrototypeCheck(clazz) ==
    IF PrototypeOf(clazz) = Undefined THEN "TypeError"
    ELSE IF PrototypeOf(clazz) \in AlwaysHiddenPrototypes THEN "TypeError"
    ELSE "return"

\* Serializer.hidePrototypeOf
HidePrototypeOf(clazz) ==
    /\ hiddenPrototypes' =
          IF PrototypeCheck(clazz) = "return" /\ PrototypeOf(clazz) \notin hiddenPrototypes
          THEN hiddenPrototypes \cup { PrototypeOf(clazz) }
          ELSE hiddenPrototypes
    /\ reply' = Reply("hidePrototypeOf", clazz, PrototypeCheck(clazz), Undefined,
                      hiddenPrototypes)
    /\ UNCHANGED <<intRange, indentationSpaceCount, besidesUtilities>>

\* Serializer.unhidePrototypeOf; round tells that it follows a
\* hidePrototypeOf of the same class, whose set before it keeps
UnhidePrototypeOf(clazz) ==
    /\ hiddenPrototypes' =
          IF PrototypeCheck(clazz) = "return" /\ PrototypeOf(clazz) \in hiddenPrototypes
          THEN hiddenPrototypes \ { clazz }
          ELSE hiddenPrototypes
    /\ LET follows == /\ reply.op = "hidePrototypeOf" /\ reply.arg = clazz
                      /\ reply.out = "return"
       IN  reply' = [Reply("unhidePrototypeOf", clazz, PrototypeCheck(clazz), Undefined,
                           IF follows THEN reply.before ELSE hiddenPrototypes)
                       EXCEPT !.round = follows]
    /\ UNCHANGED <<intRange, indentationSpaceCount, besidesUtilities>>

\* Serializer.isHidden
IsHidden(clazz) == clazz \in hiddenPrototypes \/ clazz \in AlwaysHiddenPrototypes

IsHiddenCall(clazz) ==
    /\ reply' = Reply("isHidden", clazz, "return", Bool(IsHidden(clazz)), hiddenPrototypes)
    /\ UNCHANGED <<intRange, indentationSpaceCount, hiddenPrototypes, besidesUtilities>>

\* Serializer.getPrototypeOf; no object of the graph is its own prototype
GetPrototypeOf(object) ==
    LET prototype == IF objects[object.ref].proto = 0 THEN Null
                     ELSE Ref(objects[object.ref].proto)
    IN  IF prototype \in hiddenPrototypes THEN Null ELSE prototype

GetPrototypeOfCall(object) ==
    /\ reply' = Reply("getPrototypeOf", object, "return", GetPrototypeOf(object),
                      hiddenPrototypes)
    /\ UNCHANGED <<intRange, indentationSpaceCount, hiddenPrototypes, besidesUtilities>>

\* the classes the client passes, one of them always hidden and one with
\* no prototype; the objects it serializes; the counts it assigns
Classes == {ObjectClass, FooClass, MapClass, FunctionClass, ArrowFunction}
Serialized == {Ref(13), Ref(21), Ref(34), Ref(20)}
Counts == {Num(-1), Num(0), Num(5), Num(20), Num(21), Half(5), NaN, Infinity}

NextSerializer ==
    \/ \E value \in Counts : SetIndentationSpaceCount(value)
    \/ GetIndentationSpaceCount
    \/ \E clazz \in Classes : HidePrototypeOf(clazz)
    \/ \E clazz \in Classes : UnhidePrototypeOf(clazz)
    \/ \E clazz \in Classes : IsHiddenCall(clazz)
    \/ \E object \in Serialized : GetPrototypeOfCall(object)

SpecSerializer == Init /\ [][NextSerializer]_vars

(***************************************************************************)
(* Claims about the Serializer.                                            *)
(***************************************************************************)
\* C27: after hidePrototypeOf(C) has returned, isHidden(C) is true and the
\* prototype of C is omitted (getPrototypeOf gives null for its instances);
\* after an unhidePrototypeOf(C) that follows it, isHidden(C) is false and
\* the set of hidden prototypes is what it was before the hidePrototypeOf.
C27_HideUnhide ==
    /\ reply.op = "hidePrototypeOf" /\ reply.out = "return"
          => /\ IsHidden(reply.arg)
             /\ \A object \in Serialized :
                   objects[object.ref].proto = PrototypeOf(reply.arg).ref
                      => GetPrototypeOf(object) = Null
    /\ reply.op = "unhidePrototypeOf" /\ reply.round
          => /\ ~IsHidden(reply.arg)
             /\ hiddenPrototypes = reply.before

\* an integer from 0 to 20
IndentationCount(value) ==
    NumberIsInteger(value) /\ NumLe(Num(0), value) /\ NumLe(value, Num(20))

\* C28: assigning indentationSpaceCount an integer from 0 to 20 succeeds
\* and the getter then returns it; assigning anything else throws TypeError
\* and leaves the count as it was.
C28_IndentationSpaceCount ==
    reply.op = "setIndentationSpaceCount" =>
        IF IndentationCount(reply.arg)
        THEN reply.out = "return" /\ indentationSpaceCount = reply.arg
        ELSE reply.out = "TypeError" /\ indentationSpaceCount = reply.before

(***************************************************************************)
(* Identifier, Registry and MutableRegistry (src/src/utils/NeoRegistry.ts).*)
(* A registry's entries are a Set of RegistryEntry objects, kept here in   *)
(* insertion order.                                                        *)
(***************************************************************************)
\* new Identifier(namespace, value)
Identifier(namespace, value) == [namespace |-> namespace, value |-> value]

\* Identifier.equals
IdentifierEquals(a, b) == a.namespace = b.namespace /\ a.value = b.value

\* new RegistryEntry(identifier, value)
RegistryEntry(identifier, value) == [identifier |-> identifier, value |-> value]

\* Registry.contains
Contains(entries, identifier) ==
    \E i \in DOMAIN entries : IdentifierEquals(entries[i].identifier, identifier)

\* the entry the loops of get and unregister stop at
Found(entries, identifier) ==
    Min({ i \in DOMAIN entries : IdentifierEquals(entries[i].identifier, identifier) })

\* "..." + value: the value is converted to a string (a symbol cannot be;
\* an object is asked for valueOf, which the objects of the graph inherit
\* from Object.prototype or lack, and then for toString)
ConcatOutcome(value) == ToStringOutcome(value, { })

\* MutableRegistry.register: how it ends
RegisterOutcome(r, identifier, value) ==
    IF Contains(r.entries, identifier)
    THEN IF ConcatOutcome(value) # "none" THEN ConcatOutcome(value) ELSE "RegistryError"
    ELSE IF Test(models[r.type], value, 1).out \notin {"true", "false"}
    THEN Test(models[r.type], value, 1).out
    ELSE IF Test(models[r.type], value, 1).out = "false"
    THEN IF ConcatOutcome(value) # "none" THEN ConcatOutcome(value) ELSE "RegistryError"
    ELSE "return"

\* the part of the variables the registry's operations leave alone
besidesRegistry ==
    <<validation, emitter, intRange, indentationSpaceCount, hiddenPrototypes, forms>>

\* new MutableRegistry(identifier, type)
NewMutableRegistry(type) ==
    /\ registry' = [type |-> type, entries |-> << >>]
    /\ reply' = Reply("new", type, "return", Undefined, registry.entries)
    /\ UNCHANGED besidesRegistry

\* MutableRegistry.register
RegistryRegister(identifier, value) ==
    /\ registry' =
          IF RegisterOutcome(registry, identifier, value) = "return"
          THEN [registry EXCEPT !.entries = Append(@, RegistryEntry(identifier, value))]
          ELSE registry
    /\ reply' = Reply("register", << identifier, value >>,
                      RegisterOutcome(registry, identifier, value),
                      IF RegisterOutcome(registry, identifier, value) = "return"
                      THEN RegistryEntry(identifier, value) ELSE Undefined,
                      registry.entries)
    /\ UNCHANGED besidesRegistry

\* MutableRegistry.unregister
RegistryUnregister(identifier) ==
    /\ IF Contains(registry.entries, identifier)
       THEN LET i == Found(registry.entries, identifier)
            IN  /\ registry' = [registry EXCEPT !.entries =
                                   SubSeq(@, 1, i - 1) \o SubSeq(@, i + 1, Len(@))]
                /\ reply' = Reply("unregister", identifier, "return",
                                  registry.entries[i], registry.entries)
       ELSE /\ registry' = registry
            /\ reply' = Reply("unregister", identifier, "RegistryError", Undefined,
                              registry.entries)
    /\ UNCHANGED besidesRegistry

\* Registry.contains
RegistryContains(identifier) ==
    /\ reply' = Reply("contains", identifier, "return",
                      Bool(Contains(registry.entries, identifier)), registry.entries)
    /\ UNCHANGED <<registry, besidesRegistry>>

\* Registry.get
RegistryGet(identifier) ==
    /\ reply' = IF Contains(registry.entries, identifier)
                THEN Reply("get", identifier, "return",
                           registry.entries[Found(registry.entries, identifier)].value,
                           registry.entries)
                ELSE Reply("get", identifier, "RegistryError", Undefined, registry.entries)
    /\ UNCHANGED <<registry, besidesRegistry>>

\* the identifiers, the type models and the values the client uses
Identifiers == {Identifier(S_a, S_a), Identifier(S_a, S_b), Identifier(S_b, S_a)}
RegistryTypes == {sentry.string, sentry.number}
RegistryValues == {Str(S_a), Str(S_x), Num(1), Sym(S_a), Ref(20), Ref(13)}

NextMutableRegistry ==
    \/ \E type \in RegistryTypes : NewMutableRegistry(type)
    \/ \E identifier \in Identifiers, value \in RegistryValues :
          RegistryRegister(identifier, value)
    \/ \E identifier \in Identifiers : RegistryUnregister(identifier)
    \/ \E identifier \in Identifiers : RegistryContains(identifier)
    \/ \E identifier \in Identifiers : RegistryGet(identifier)

SpecMutableRegistry == Init /\ [][NextMutableRegistry]_vars

(***************************************************************************)
(* Claims about the registry.                                              *)
(***************************************************************************)
\* C26: no two entries of a MutableRegistry have equal identifiers and
\* every stored value satisfies its type model; a register call with a
\* contained identifier or a value the type model rejects, and an
\* unregister call for an absent identifier, throw RegistryError and leave
\* the entries as they were.
C26_RegistryEntries ==
    /\ \A i, j \in DOMAIN registry.entries :
          i # j => ~IdentifierEquals(registry.entries[i].identifier,
                                     registry.entries[j].identifier)
    /\ \A i \in DOMAIN registry.entries : Accepts(registry.type, registry.entries[i].value)
    /\ reply.op = "register"
          /\ \/ Contains(reply.before, reply.arg[1])
             \/ Outcome(registry.type, reply.arg[2]) = "false"
          => reply.out = "RegistryError" /\ registry.entries = reply.before
    /\ reply.op = "unregister" /\ ~Contains(reply.before, reply.arg)
          => reply.out = "RegistryError" /\ registry.entries = reply.before

(***************************************************************************)
(* The identifier parser: AbstractParser (src/src/utils/Events.ts) and     *)
(* IdentifierParser (src/src/utils/NeoRegistry.ts).  A parser is its text, *)
(* a sequence of characters, and its cursor, counted from 0.               *)
(***************************************************************************)
\* the longest text the client has parsed
MaxText == 4

Parser(text, cursor) == [text |-> text, cursor |-> cursor]

\* AbstractParser.isOver
IsOver(p) == p.cursor >= Len(p.text)

\* AbstractParser.peekChar, where the parser is not over
PeekChar(p) == p.text[p.cursor + 1]

\* AbstractParser.nextChar, where the parser is not over
NextChar(p) == [p EXCEPT !.cursor = @ + 1]

\* IdentifierParser.getWhitespace, getQuotes
Whitespace == {" "}
Quotes == {"'", "\""}

\* AbstractParser.getInvalidSymbolsInUnquotedString
InvalidSymbols ==
    { ".", ",", ":", ";", "\\", "@", "(", ")", "{", "}", "[", "]",
      "!", "?", "'", "\"", "#", "$", "=", "+", "-", "*", "/", "%",
      "&", "|", "~", "^", "<", ">" }

\* AbstractParser.ignore
RECURSIVE Ignore(_)
Ignore(p) ==
    IF IsOver(p) THEN p
    ELSE IF PeekChar(p) \in Whitespace THEN Ignore(NextChar(p))
    ELSE p

\* AbstractParser.isOnlyWhitespaceRemaining
IsOnlyWhitespaceRemaining(p) ==
    IsOver(p) \/ \A i \in (p.cursor + 1) .. Len(p.text) : p.text[i] \in Whitespace

\* AbstractParser.test, with candidates of one character: where it leaves
\* the parser, and whether a candidate was found
ParserTest(p, ignore, candidates) ==
    LET q == IF ignore THEN Ignore(p) ELSE p
    IN  [parser |-> q, found |-> ~IsOver(q) /\ PeekChar(q) \in candidates]

\* a parsing method has returned value, or thrown the parser's exception
Parsed(p, value, isQuoted) ==
    [out |-> "return", parser |-> p, value |-> value, isQuoted |-> isQuoted]
ParseFailed(p) ==
    [out |-> "IdentifierParseError", parser |-> p, value |-> << >>, isQuoted |-> FALSE]

\* sb.substring(sb.length - 1, sb.length)
LastChar(sb) == IF sb = << >> THEN << >> ELSE << sb[Len(sb)] >>

\* AbstractParser.string, the loop of a quoted string: current has been
\* read and the cursor is behind it
RECURSIVE QuotedLoop(_, _, _, _, _)
QuotedLoop(p, quote, previous, current, sb) ==
    IF previous = "\\" \/ current # quote
    THEN IF IsOver(p) THEN ParseFailed(p)
         ELSE QuotedLoop(NextChar(p), quote, current, PeekChar(p),
                         Append(IF previous = "\\" /\ current = quote
                                THEN LastChar(sb) ELSE sb, current))
    ELSE Parsed(p, sb, TRUE)

\* AbstractParser.string, the loop of an unquoted string
RECURSIVE UnquotedLoop(_, _, _, _)
UnquotedLoop(p, current, sb, stoppers) ==
    IF current \notin Whitespace /\ current \notin stoppers
    THEN IF current \in InvalidSymbols THEN ParseFailed(p)
         ELSE IF IsOver(p) THEN Parsed(p, Append(sb, current), FALSE)
         ELSE UnquotedLoop(NextChar(p), PeekChar(p), Append(sb, current), stoppers)
    ELSE Parsed([p EXCEPT !.cursor = @ - 1], sb, FALSE)

\* AbstractParser.string
ParserString(p, ignore, stoppers) ==
    LET q == IF ignore THEN Ignore(p) ELSE p
    IN  IF IsOver(q) THEN ParseFailed(q)
        ELSE IF PeekChar(q) \in Quotes
        THEN IF IsOver(NextChar(q)) THEN ParseFailed(NextChar(q))
             ELSE QuotedLoop(NextChar(NextChar(q)), PeekChar(q), PeekChar(q),
                             PeekChar(NextChar(q)), << >>)
        ELSE UnquotedLoop(NextChar(q), PeekChar(q), << >>, stoppers)

\* AbstractParser.unquotedString
UnquotedString(p, ignore, stoppers) ==
    LET str == ParserString(p, ignore, stoppers)
    IN  IF str.out = "return" /\ str.isQuoted THEN ParseFailed(str.parser) ELSE str

\* AbstractParser.quotedString
QuotedString(p, ignore) ==
    LET str == ParserString(p, ignore, { })
    IN  IF str.out = "return" /\ ~str.isQuoted THEN ParseFailed(str.parser) ELSE str

\* IdentifierParser.first: the string read, and hasSecond
ParserFirst(p) ==
    LET quoted == ParserTest(p, TRUE, Quotes)
        str == IF quoted.found THEN QuotedString(quoted.parser, TRUE)
               ELSE UnquotedString(quoted.parser, TRUE, {":"})
    IN  [str |-> str,
         hasSecond |-> IF str.out # "return" THEN FALSE
                       ELSE IF quoted.found THEN ParserTest(str.parser, FALSE, {":"}).found
                       ELSE ~IsOnlyWhitespaceRemaining(str.parser)]

\* IdentifierParser.second
ParserSecond(p) ==
    IF IsOver(p) THEN Parsed(p, << >>, FALSE)
    ELSE IF ParserTest(p, FALSE, Quotes).found THEN QuotedString(p, TRUE)
    ELSE UnquotedString(p, FALSE, { })

\* AbstractParser.finish: whether it returns
Finishes(p) == IsOver(Ignore(p))

\* IdentifierParser.parse without a default namespace, as Identifier.of
\* and IdentifierParser.readIdentifier call it
IdentifierOf(text) ==
    LET first == ParserFirst(Parser(text, 0))
        second == ParserSecond(first.str.parser)
    IN  IF first.str.out # "return" THEN Threw(first.str.out)
        ELSE IF ~first.hasSecond THEN Threw("IdentifierParseError")
        ELSE IF second.out # "return" THEN Threw(second.out)
        ELSE IF ~Finishes(second.parser) THEN Threw("IdentifierParseError")
        ELSE Gave(Identifier(first.str.value, second.value))

\* Identifier.toString
IdentifierToString(id) == id.namespace \o << ":" >> \o id.value

\* the characters of the client's texts, and the texts
Letters == {"a", "b"}
Characters == Letters \cup {":", " ", "\"", "\\"}
Texts == UNION { [1 .. n -> Characters] : n \in 0 .. MaxText }

\* non-empty words of letters
Words == UNION { [1 .. n -> Letters] : n \in 1 .. MaxText - 2 }

\* Identifier.of(string)
Of(text) ==
    /\ reply' = Reply("of", text, IdentifierOf(text).out, IdentifierOf(text).value,
                      Undefined)
    /\ UNCHANGED <<registry, besidesRegistry>>

\* Identifier.of(id.toString()).equals(id), for id = new Identifier(namespace, value)
OfToString(namespace, value) ==
    /\ LET id == Identifier(namespace, value)
           of == IdentifierOf(IdentifierToString(id))
       IN  reply' = Reply("of(toString)", id, of.out,
                          IF of.out = "return" THEN Bool(IdentifierEquals(of.value, id))
                          ELSE Undefined, Undefined)
    /\ UNCHANGED <<registry, besidesRegistry>>

\* the client has taken the reply of its call
Taken ==
    /\ reply # NoReply
    /\ reply' = NoReply
    /\ UNCHANGED <<registry, besidesRegistry>>

NextIdentifier ==
    \/ /\ reply = NoReply
       /\ \/ \E text \in Texts : Of(text)
          \/ \E namespace, value \in Words :
                Len(namespace) + Len(value) < MaxText /\ OfToString(namespace, value)
    \/ Taken

SpecIdentifier == Init /\ [][NextIdentifier]_vars

(***************************************************************************)
(* Claims about identifiers.                                               *)
(***************************************************************************)
\* C25: for non-empty words of letters ns and val, Identifier.of(ns:val)
\* returns the Identifier whose namespace is ns and whose value is val, so
\* Identifier.of(id.toString()).equals(id) holds.
C25_IdentifierRoundTrip ==
    /\ reply.op = "of"
          => \A namespace, value \in Words :
                reply.arg = namespace \o << ":" >> \o value
                   => reply.out = "return" /\ reply.value = Identifier(namespace, value)
    /\ reply.op = "of(toString)" /\ reply.arg.namespace \in Words /\ reply.arg.value \in Words
          => reply.out = "return" /\ reply.value = Bool(TRUE)

(***************************************************************************)
(* The forms (src/src/libs/UI-2.0.ts): ServerFormWrapper and its three     *)
(* subclasses.  open shows the form; the answer arrives later and is       *)
(* handled by the then-callback of open, which calls the registered        *)
(* callbacks in turn.  A callback is client code, and while it runs it may *)
(* register callbacks and open the form again.                             *)
(***************************************************************************)
\* callback functions the client passes
MaxCallbacks == 3
\* buttons of an action form
MaxButtons == 1
\* shows that are not answered yet
MaxShown == 1

\* FormCancelationReason
Reasons == {"UserBusy", "UserClosed"}

FormKinds == {"Action", "Modal", "Message"}

\* the elements of a list
Range(list) == { list[i] : i \in DOMAIN list }

\* client code is running between two answers, or in a callback
MayAct == form.kind # "none" /\ (handling = NoHandling \/ handling.running)

\* the client has a callback function left to pass
Fresh == form.callbacks < MaxCallbacks

\* what the forms' operations leave alone
besidesForms == <<validation, emitter, utilities, registry>>

\* new ActionFormWrapper(), new ModalFormWrapper(), new MessageFormWrapper()
Construct(kind) ==
    /\ form = NoForm
    /\ form' = NewForm(kind)
    /\ UNCHANGED <<handling, handled, besidesForms>>

\* ServerFormWrapper.onCancel
OnCancel(cause) ==
    /\ MayAct /\ Fresh
    /\ form' = [form EXCEPT !.cancel[cause] = Append(@, form.callbacks + 1),
                            !.callbacks = @ + 1]
    /\ UNCHANGED <<handling, handled, besidesForms>>

\* ActionFormWrapper.onPush, MessageFormWrapper.onPush
OnPush ==
    /\ MayAct /\ Fresh
    /\ form.kind \in {"Action", "Message"}
    /\ form' = [form EXCEPT !.push = Append(@, form.callbacks + 1), !.callbacks = @ + 1]
    /\ UNCHANGED <<handling, handled, besidesForms>>

\* the callbacks Set of a button given with or without `on`
ButtonCallbacks(on) == IF on THEN << form.callbacks + 1 >> ELSE << >>

\* ActionFormWrapper.button
Button(on) ==
    /\ MayAct /\ (on => Fresh)
    /\ form.kind = "Action"
    /\ Len(form.buttons) < MaxButtons
    /\ form' = [form EXCEPT !.buttons = Append(@, ButtonCallbacks(on)),
                            !.callbacks = IF on THEN @ + 1 ELSE @]
    /\ UNCHANGED <<handling, handled, besidesForms>>

\* MessageFormWrapper.button1 (i = 1), button2 (i = 2)
MessageButton(i, on) ==
    /\ MayAct /\ (on => Fresh)
    /\ form.kind = "Message"
    /\ form' = [form EXCEPT !.buttons[i] = ButtonCallbacks(on),
                            !.callbacks = IF on THEN @ + 1 ELSE @]
    /\ UNCHANGED <<handling, handled, besidesForms>>

\* ModalFormWrapper.submitButton; callback 0 is the empty function
SubmitButton(on) ==
    /\ MayAct /\ (on => Fresh)
    /\ form.kind = "Modal"
    /\ form' = [form EXCEPT !.submit = IF on THEN form.callbacks + 1 ELSE 0,
                            !.callbacks = IF on THEN @ + 1 ELSE @]
    /\ UNCHANGED <<handling, handled, besidesForms>>

\* MessageFormWrapper.body
Body ==
    /\ MayAct
    /\ form.kind = "Message"
    /\ form' = [form EXCEPT !.body = TRUE]
    /\ UNCHANGED <<handling, handled, besidesForms>>

\* open(player): the form is shown (a message form without a body throws
\* instead)
Open ==
    /\ MayAct
    /\ form.kind = "Message" => form.body
    /\ form.shown < MaxShown
    /\ form' = [form EXCEPT !.shown = @ + 1]
    /\ UNCHANGED <<handling, handled, besidesForms>>

\* the answer of a form closed for a reason, and of one with selection i
\* (for a modal form: with form values)
Canceled(reason) == [canceled |-> TRUE, reason |-> reason, selection |-> 0]
Selected(i) == [canceled |-> FALSE, reason |-> "none", selection |-> i]

\* the answers the game gives to a shown form
Responses ==
    { Canceled(reason) : reason \in Reasons }
       \cup { Selected(i) : i \in IF form.kind = "Modal" THEN {1} ELSE DOMAIN form.buttons }

\* a faulty variant of CancelationPhases, which C21 is tested against
CancelationPhasesReasonFirst(reason) == << reason, "Any" >>

\* the forEach loops of a canceled answer, in the order of the code
CancelationPhases(reason) == << "Any", reason >>

\* the forEach loops (for a modal form, the one call) of an answer
Phases(response) ==
    IF response.canceled THEN CancelationPhases(response.reason)
    ELSE IF form.kind = "Modal" THEN << "submit" >>
    ELSE << "button", "push" >>

\* the callbacks a loop goes through: a Set of the wrapper, as it is now,
\* or the Set of the selected button
PhaseList(h, f) ==
    LET p == h.phases[h.phase]
    IN  IF p \in Causes THEN f.cancel[p]
        ELSE IF p = "push" THEN f.push
        ELSE IF p = "button" THEN h.button
        ELSE << f.submit >>

\* the loops that have nothing left to call are left
RECURSIVE Settled(_, _)
Settled(h, f) ==
    IF h.phase > Len(h.phases) THEN h
    ELSE IF h.at < Len(PhaseList(h, f)) THEN h
    ELSE Settled([h EXCEPT !.phase = @ + 1, !.at = 0], f)

\* the promise of a show is resolved: the then-callback of open starts
Respond(response) ==
    /\ form.kind # "none"
    /\ handling = NoHandling
    /\ form.shown > 0
    /\ response \in Responses
    /\ form' = [form EXCEPT !.shown = @ - 1]
    /\ handling' = Settled([NoHandling EXCEPT
                               !.response = response,
                               !.phases = Phases(response),
                               !.button = IF response.canceled \/ form.kind = "Modal"
                                          THEN << >>
                                          ELSE form.buttons[response.selection],
                               !.was = form.cancel], form)
    /\ handled' = NoHandling
    /\ UNCHANGED besidesForms

\* a forEach loop calls its next callback
CallNext ==
    /\ handling # NoHandling
    /\ ~handling.running
    /\ handling.phase <= Len(handling.phases)
    /\ handling' = [handling EXCEPT
                       !.at = @ + 1,
                       !.running = TRUE,
                       !.log = Append(@, PhaseList(handling, form)[handling.at + 1])]
    /\ UNCHANGED <<form, handled, besidesForms>>

\* the callback returns
CallbackReturn ==
    /\ handling # NoHandling
    /\ handling.running
    /\ handling' = Settled([handling EXCEPT !.running = FALSE], form)
    /\ UNCHANGED <<form, handled, besidesForms>>

\* the then-callback returns
Handled ==
    /\ handling # NoHandling
    /\ ~handling.running
    /\ handling.phase > Len(handling.phases)
    /\ handled' = handling
    /\ handling' = NoHandling
    /\ UNCHANGED <<form, besidesForms>>

NextForms ==
    \/ \E kind \in FormKinds : Construct(kind)
    \/ \E cause \in Causes : OnCancel(cause)
    \/ OnPush
    \/ \E on \in BOOLEAN : Button(on)
    \/ \E i \in {1, 2}, on \in BOOLEAN : MessageButton(i, on)
    \/ \E on \in BOOLEAN : SubmitButton(on)
    \/ Body
    \/ Open
    \/ \E response \in Responses : Respond(response)
    \/ CallNext
    \/ CallbackReturn
    \/ Handled

SpecForms == Init /\ [][NextForms]_vars

(***************************************************************************)
(* Claims about the forms.                                                 *)
(***************************************************************************)
\* the cancelation reason that is not the given one
OtherReason(reason) == CHOOSE other \in Reasons : other # reason

\* C21: when a form was closed without a selection, every callback that
\* was registered for Any and every callback that was registered for the
\* reason of the answer has been invoked, the ones for Any before the ones
\* for the reason; no callback registered for the other reason and no
\* button, push or submit callback has been invoked for that answer.
C21_CancelCallbacks ==
    handled.response.canceled =>
        LET reason == handled.response.reason
            log == handled.log
        IN  /\ Range(handled.was["Any"]) \cup Range(handled.was[reason]) \subseteq Range(log)
            /\ \A i, j \in DOMAIN log :
                  log[i] \in Range(form.cancel["Any"]) /\ log[j] \in Range(form.cancel[reason])
                     => i < j
            /\ \A i \in DOMAIN log :
                  /\ log[i] \in Range(form.cancel["Any"]) \cup Range(form.cancel[reason])
                  /\ log[i] \notin Range(form.cancel[OtherReason(reason)])
                  /\ log[i] \notin Range(form.push) \cup {form.submit}
                  /\ \A b \in DOMAIN form.buttons : log[i] \notin Range(form.buttons[b])

\* a form with callbacks for Any, for UserClosed and for UserBusy was
\* closed by the user: the callback for Any and then the one for UserClosed
\* have been invoked
C21_Witness ==
    /\ handled.response = Canceled("UserClosed")
    /\ Len(handled.log) = 2
    /\ handled.log[1] \in Range(form.cancel["Any"])
    /\ handled.log[2] \in Range(form.cancel["UserClosed"])
    /\ form.cancel["UserBusy"] # << >>
=============================================================================
